---- MODULE Spec2Model ----
(***************************************************************************)
(* A model of the LLM tool-calling agent runtime of openclawgotchi:         *)
(*   - LiteLLMConnector.call (src/src/llm/litellm_connector.py), the agent  *)
(*     loop: provider calls, tool dispatch, loop detection, budgets, footer *)
(*   - the rate-limit tracker (src/src/llm/rate_limits.py)                  *)
(*   - the tool functions execute_bash and write_file and the waits of the  *)
(*     tool catalog (src/src/llm/litellm_connector.py)                      *)
(* Texts are modelled as sequences of tokens: concatenation of strings is   *)
(* concatenation of sequences, the empty string is <<>>, and a prefix test  *)
(* is a test on the leading tokens.                                         *)
(***************************************************************************)
EXTENDS Integers, Sequences, FiniteSets, TLC

VARIABLES
    lib_available,    \* whether "from litellm import acompletion" succeeds
    pc,               \* position of the call() coroutine
    outcome,          \* what call() gave its caller: returned text or raised
    messages,         \* the running message list sent to the provider
    turn,             \* the loop variable of "for turn in range(MAX_TURNS)"
    tool_calls_count, \* tool_calls_count
    recent_tools,     \* recent_tools
    tool_actions,     \* tool_actions
    batch,            \* msg.tool_calls of the response being processed
    idx,              \* position in batch of the next tool_call of the for loop
    provider_calls,   \* history: number of acompletion invocations so far
    last_exc,         \* history: the exception call() caught or raised last
    req_log,          \* history: the tool-call requests processed, in order
    models_used,      \* history: the presets the session's requests named
    limits_data,      \* rate_limits._limits_data (provider -> record)
    limits_file,      \* content of rate_limits.json
    now,              \* datetime.utcnow(), in seconds
    hits,             \* history: number of record_rate_limit calls so far
    expired,          \* history: providers whose record a check removed, until recorded again
    tool_pc,          \* position of the tool function being executed
    tool_inv,         \* the tool invocation in progress: its arguments, locals
    tool_result,      \* what the last tool function returned
    fs,               \* the files of the filesystem: path -> content
    dirs,             \* the directories of the filesystem
    procs,            \* history: the commands given to subprocess.run
    fs_log,           \* history: the filesystem operations performed
    workers,          \* the processes that use rate_limits.json: position, map
    torn,             \* whether rate_limits.json is cut short or garbled
    last_done,        \* history: per provider, the last record or clear completed
    force_lite,       \* LLMRouter.force_lite
    lock_holder,      \* the task that holds ClaudeConnector._lock, if any
    lock_waiters,     \* the tasks waiting for the lock, in order of arrival
    tasks,            \* the tasks of the event loop that call the router
    split_pc,         \* position of _split_text_preserving_blocks
    split_text,       \* its argument text, a sequence of characters
    current_pos,      \* current_pos
    chunks,           \* chunks
    chunk_ends,       \* history: the values chunk_end took, in order
    pending_tasks,    \* the ids of the rows of table pending_tasks, by id
    next_id,          \* the id the table gives the next row
    ppt_pc,           \* position of process_pending_tasks
    ppt_tasks,        \* what is left of its tasks[:MAX_TASKS]
    delivered,        \* history: the tasks a reply was sent for
    jobs,             \* CronScheduler.jobs, in the order of insertion
    jobs_file,        \* the jobs of cron_jobs.json
    clock,            \* datetime.now() of the scheduler
    check_pc,         \* position of _check_jobs
    check_now,        \* its now
    check_todo,       \* what is left of its list(self.jobs.values())
    runs,             \* history: how often the callback was invoked, by job id
    hm_pc,            \* position of handle_message around its router.call
    saved_reply,      \* what save_message stored as the assistant's reply
    answered,         \* the number of on_message_answered calls
    error_shown,      \* what error_screen and the error reply showed
    conn_model,       \* the preset of LiteLLMConnector.model and .api_base
    rc                \* by task, its router call in progress or ended last

vars == <<lib_available, pc, outcome, messages, turn, tool_calls_count,
          recent_tools, tool_actions, batch, idx, provider_calls, last_exc,
          req_log, limits_data, limits_file, now, hits, expired, tool_pc,
          tool_inv, tool_result, fs, dirs, procs, fs_log, workers, torn,
          last_done, force_lite, lock_holder, lock_waiters, tasks, split_pc,
          split_text, current_pos, chunks, chunk_ends, pending_tasks,
          next_id, ppt_pc, ppt_tasks, delivered, jobs, jobs_file, clock,
          check_pc, check_now, check_todo, runs, hm_pc, saved_reply, answered,
          error_shown, models_used, conn_model, rc>>

sessionVars == <<lib_available, pc, outcome, messages, turn, tool_calls_count,
                 recent_tools, tool_actions, batch, idx, provider_calls,
                 last_exc, req_log, models_used>>

trackerVars == <<limits_data, limits_file, now, hits, expired>>

toolVars == <<tool_pc, tool_inv, tool_result, fs, dirs, procs, fs_log>>

storeVars == <<workers, torn, last_done>>

\* The variables of the components that stand beside the agent loop, the
\* tracker of one process and the tool functions.
lockVars == <<force_lite, lock_holder, lock_waiters, tasks>>

splitVars == <<split_pc, split_text, current_pos, chunks, chunk_ends>>

queueVars == <<pending_tasks, next_id, ppt_pc, ppt_tasks, delivered>>

cronVars == <<jobs, jobs_file, clock, check_pc, check_now, check_todo, runs>>

\* The components added last.
replyVars == <<hm_pc, saved_reply, answered, error_shown>>

modelVars == <<conn_model>>

routeVars == <<rc>>

lateVars == <<cronVars, replyVars, modelVars, routeVars>>

otherVars == <<storeVars, lockVars, splitVars, queueVars, lateVars>>

\* What a session of the agent loop leaves alone in this model.
envVars == <<trackerVars, toolVars, otherVars>>

\* What the tracker of one process, and what a tool function, leaves alone.
nonTrackerVars == <<sessionVars, toolVars, otherVars>>

nonToolVars == <<sessionVars, trackerVars, otherVars>>

\* What the processes sharing the store leave alone, the tracker's
\* variables apart; what the tasks around the provider lock leave alone.
storeFrame == <<sessionVars, toolVars, lockVars, splitVars, queueVars, lateVars>>

lockFrame == <<sessionVars, trackerVars, toolVars, storeVars, splitVars, queueVars,
               lateVars>>

splitFrame == <<sessionVars, trackerVars, toolVars, storeVars, lockVars, queueVars,
                lateVars>>

queueFrame == <<sessionVars, trackerVars, toolVars, storeVars, lockVars, splitVars,
                lateVars>>

\* The components modelled first.
baseVars == <<sessionVars, trackerVars, toolVars, storeVars, lockVars, splitVars,
              queueVars>>

cronFrame == <<baseVars, replyVars, modelVars, routeVars>>

replyFrame == <<trackerVars, toolVars, storeVars, lockVars, splitVars, queueVars,
                cronVars, modelVars, routeVars>>

modelFrame == <<trackerVars, toolVars, storeVars, splitVars, queueVars, cronVars,
                replyVars, routeVars>>

routeFrame == <<baseVars, cronVars, replyVars, modelVars>>

----------------------------------------------------------------------------
(* Program constants                                                        *)

MAX_TURNS == 40

MAX_TOOL_CALLS == 50

MAX_REPEAT == 3

FOOTER_MAX_LINES == 8

SHORT_LIMIT_THRESHOLD == 90

FALLBACK_SECONDS == 3600

TELEGRAM_MSG_LIMIT == 4096

MAX_TASKS == 3

(* Bounds of the model                                                      *)

\* The provider answers freely on its first FreeTurns calls of a session;
\* afterwards it re-issues the tool calls of its previous response, answers
\* finally, or fails.
FreeTurns == 1

\* The number of throttling events recorded in a behaviour of the tracker.
MaxHits == 2

\* The last time of the scheduler's clock, and the number of invocations
\* of a job's callback that the history counts.
MaxClock == 2

MaxRuns == 2

\* The number of requests queued in a behaviour of the pending queue.
MaxQueued == 4

\* The max_length given to _split_text_preserving_blocks in the model, in
\* place of TELEGRAM_MSG_LIMIT: the smallest one at which a line can end in
\* the last fifth of a chunk and be followed there by a fence marker.
SplitLimit == 25

None == "None"

----------------------------------------------------------------------------
(* The tool registry                                                        *)

TOOL_MAP ==
    { "execute_bash", "manage_service", "restart_self", "safe_restart",
      "check_syntax", "read_file", "write_file", "list_directory",
      "github_remote_file", "restore_from_backup", "log_change", "log_error",
      "remember_fact", "recall_facts", "recall_messages", "write_daily_log",
      "read_skill", "search_skills", "list_skills", "add_scheduled_task",
      "list_scheduled_tasks", "remove_scheduled_task", "check_mail",
      "send_mail", "send_email", "read_email", "git_command", "github_push",
      "show_face", "add_custom_face", "health_check" }

\* The names of the entries of TOOLS, the list given to the provider.
TOOLS ==
    { "execute_bash", "manage_service", "restart_self", "safe_restart",
      "check_syntax", "read_file", "write_file", "list_directory",
      "github_remote_file", "restore_from_backup", "log_change", "log_error",
      "remember_fact", "recall_facts", "recall_messages", "write_daily_log",
      "read_skill", "search_skills", "list_skills", "add_scheduled_task",
      "list_scheduled_tasks", "remove_scheduled_task", "check_mail",
      "send_mail", "send_email", "read_email", "git_command", "github_push",
      "show_face", "add_custom_face", "health_check" }

\* The functions the module defines or imports under the names the values
\* of TOOL_MAP use.
ToolFunctions ==
    { "execute_bash", "manage_service", "restart_self", "safe_restart",
      "check_syntax", "read_file", "write_file", "list_directory",
      "github_remote_file", "restore_from_backup", "log_change", "log_error",
      "remember_fact", "recall_facts", "recall_messages", "write_daily_log",
      "read_skill", "search_skills", "list_skills", "add_scheduled_task",
      "list_scheduled_tasks", "remove_scheduled_task", "check_mail",
      "send_mail", "send_email", "read_email", "git_command", "github_push",
      "show_face", "add_custom_face" }

\* Tools whose signature has a parameter without a default: calling them
\* with no keyword argument raises TypeError.
RequiredArgTools ==
    { "execute_bash", "manage_service", "check_syntax", "read_file",
      "write_file", "github_remote_file", "restore_from_backup",
      "log_change", "log_error", "remember_fact", "read_skill",
      "search_skills", "add_scheduled_task", "remove_scheduled_task",
      "send_mail", "send_email", "git_command", "write_daily_log",
      "show_face", "add_custom_face" }

\* _TOOL_ICONS.get(func_name, default), icons named in ASCII.
ToolIcon(func_name) ==
    CASE func_name = "show_face" -> "ICON_SUNGLASSES"
      [] func_name = "read_file" -> "ICON_PAGE"
      [] func_name = "write_file" -> "ICON_PENCIL"
      [] func_name = "execute_bash" -> "ICON_GEAR"
      [] func_name = "remember_fact" -> "ICON_BRAIN"
      [] OTHER -> "ICON_WRENCH"

\* json.loads(tool_call.function.arguments or "{}") with its two fallbacks:
\* a payload that is not valid JSON, or is valid JSON but no object, becomes
\* the empty dict. The parsed dict is described by its shape.
ParseArgs(raw_args) ==
    CASE raw_args = "object" -> "good"
      [] raw_args = "object_wrong_types" -> "wrongtype"
      [] raw_args = "empty_object" -> "empty"
      [] raw_args = None -> "empty"
      [] raw_args = "non_object" -> "empty"
      [] raw_args = "invalid_json" -> "empty"

\* A dispatcher that treats a name outside the registry as a failing tool.
DispatchUnknownFails(func_name, args, behaves) ==
    IF func_name \notin TOOL_MAP \/ args = "wrongtype" \/ behaves = "raises"
      THEN [kind |-> "Error executing", ran |-> TRUE]
    ELSE IF args = "empty" /\ func_name \in RequiredArgTools
      THEN [kind |-> "Error: Invalid arguments", ran |-> FALSE]
    ELSE [kind |-> "ok", ran |-> TRUE]

\* TOOL_MAP.get(func_name) and func(**args) with the two except clauses.
\* kind is the text of the result; ran says whether a tool implementation
\* was entered.
Dispatch(func_name, args, behaves) ==
    IF func_name \notin TOOL_MAP
      THEN [kind |-> "Unknown tool", ran |-> FALSE]
    ELSE IF args = "empty" /\ func_name \in RequiredArgTools
      THEN [kind |-> "Error: Invalid arguments", ran |-> FALSE]
    ELSE IF args = "wrongtype" \/ behaves = "raises"
      THEN [kind |-> "Error executing", ran |-> TRUE]
    ELSE [kind |-> "ok", ran |-> TRUE]

\* "Error" in result
HasError(result) == result.kind \in {"Error: Invalid arguments", "Error executing"}

\* Whether _format_tool_action raises: the branches that slice or split an
\* argument value raise on a value that is no string.
FormatRaises(func_name, args) ==
    /\ args = "wrongtype"
    /\ func_name \in {"show_face", "remember_fact", "execute_bash", "read_file",
                      "write_file", "git_command", "log_error"}

\* _format_tool_action: the action line, as its tokens.
FormatToolAction(func_name, args, result) ==
    LET icon == ToolIcon(func_name)
        ok == IF HasError(result) THEN "x" ELSE "v"
    IN  CASE func_name = "show_face" ->
               <<icon, "face:", IF args = "good" THEN "mood" ELSE "?">>
          [] func_name = "read_file" ->
               <<icon, "read:", IF args = "good" THEN "path" ELSE "?">>
          [] func_name = "write_file" ->
               <<icon, "wrote:", IF args = "good" THEN "path" ELSE "?", ok>>
          [] func_name = "execute_bash" ->
               <<icon, "bash:", IF args = "good" THEN "cmd" ELSE "", ok>>
          [] OTHER -> <<icon, func_name, args, ok>>

\* action.startswith("<sunglasses> face:")
IsFaceActionWrongPrefix(action) ==
    /\ Len(action) >= 2
    /\ action[1] = "ICON_SUNGLASSES"
    /\ action[2] = "mood:"

IsFaceAction(action) ==
    /\ Len(action) >= 2
    /\ action[1] = "ICON_SUNGLASSES"
    /\ action[2] = "face:"

\* [a for a in actions if not a.startswith(...)]
Visible(actions) == SelectSeq(actions, LAMBDA a : ~IsFaceAction(a))

\* (action or "").replace("`", "'")
SafeLine(action) ==
    [i \in 1..Len(action) |-> IF action[i] = "BACKTICK" THEN "QUOTE" ELSE action[i]]

\* _build_tool_footer: the footer's lines ("\n".join(lines)); the empty
\* string is <<>>.
BuildToolFooter(actions) ==
    LET visible == Visible(actions)
        n == Len(visible)
        shown == IF n > FOOTER_MAX_LINES THEN FOOTER_MAX_LINES ELSE n
    IN  IF n = 0 THEN <<>>
        ELSE <<<<"FENCE">>, <<"Tool usage", n>>>>
             \o [i \in 1..shown |-> <<"  ">> \o SafeLine(visible[i])]
             \o (IF n > FOOTER_MAX_LINES
                   THEN <<<<"  ... +", n - FOOTER_MAX_LINES, "more">>>>
                   ELSE <<>>)
             \o <<<<"FENCE">>>>

\* config.LLM_PRESETS: the model and the api_base of each preset, and the
\* preset a new connector takes.
LLM_PRESETS ==
    [gemini |-> [model |-> "gemini/gemini-2.0-flash", api_base |-> None],
     glm |-> [model |-> "anthropic/glm-4.7",
              api_base |-> "https://api.z.ai/api/anthropic"]]

DEFAULT_LITE_PRESET == "glm"

\* The three fixed texts of call(), and the text of the outer except clause.
TooManyToolCallsText == <<<<"Error:", "Too many tool calls. Stopping for safety.">>>>

MaxTurnsText == <<<<"Error:", "Maximum turns reached.">>>>

ErrorConnectingText(e) == <<<<"Error connecting to LLM:", e>>>>

\* (msg.content or "") + _build_tool_footer(tool_actions)
FinalText(content, actions) ==
    (IF content = None THEN <<>> ELSE <<<<content>>>>) \o BuildToolFooter(actions)

\* response.startswith(prefix), for a prefix that is one token.
StartsWith(response, prefix) ==
    /\ response # <<>>
    /\ response[1] # <<>>
    /\ response[1][1] = prefix

\* f"Error: {e}", the reply of the except clauses of handle_message.
ErrorReplyText(e) == <<<<"Error:", e>>>>

----------------------------------------------------------------------------
(* The rate-limit tracker: pure part                                        *)

\* Provider error texts, described by the retry hint they carry. n is the
\* number the hint states; for the ISO form, n is the hint's year (the digits
\* that follow "retry after ") and at is the instant the timestamp names.
ErrText(form, n, at) == [form |-> form, n |-> n, at |-> at]

RetryIn(n) == ErrText("retry in Ns", n, 0)

NoHintText == ErrText("no hint", 0, 0)

EmptyText == ErrText("empty", 0, 0)

\* An optional value: None is the empty sequence, a value v is <<v>>.
Some(v) == <<v>>

Nothing == <<>>

\* _parse_retry_after: the patterns in the order the code tries them. The
\* first pattern, retry[- ]after[:\s]+(\d+\.?\d*), matches the header form
\* "Retry-After: N", the phrase "retry after N seconds", and the leading
\* digits of "retry after <ISO timestamp>" alike.
ParseRetryAfter(error_msg, utcnow) ==
    IF error_msg.form = "empty" THEN Nothing
    ELSE IF error_msg.form \in {"Retry-After: N", "retry after N seconds",
                                "retry after ISO"} THEN Some(error_msg.n)
    ELSE IF error_msg.form \in {"retry in Ns", "try again in Ns"} THEN Some(error_msg.n)
    ELSE IF error_msg.form = "rate_limit_delay: N" THEN Some(error_msg.n)
    ELSE Nothing

\* A record without the fallback window for texts that carry no hint.
LimitRecordNoFallback(error_msg, utcnow) ==
    LET retry_seconds == ParseRetryAfter(error_msg, utcnow)
        wait == IF retry_seconds # Nothing THEN retry_seconds[1] ELSE 0
    IN  [last_hit |-> utcnow,
         retry_seconds |-> retry_seconds,
         reset_at |-> utcnow + wait,
         limit_type |-> IF retry_seconds = Nothing THEN "unknown"
                        ELSE IF wait <= SHORT_LIMIT_THRESHOLD THEN "short" ELSE "long",
         error_preview |-> IF error_msg.form = "empty" THEN Nothing ELSE Some(error_msg)]

\* The record record_rate_limit stores.
LimitRecord(error_msg, utcnow) ==
    LET retry_seconds == ParseRetryAfter(error_msg, utcnow)
    IN  IF retry_seconds # Nothing
          THEN [last_hit |-> utcnow,
                retry_seconds |-> retry_seconds,
                reset_at |-> utcnow + retry_seconds[1],
                limit_type |-> IF retry_seconds[1] <= SHORT_LIMIT_THRESHOLD
                                 THEN "short" ELSE "long",
                error_preview |-> Some(error_msg)]
          ELSE [last_hit |-> utcnow,
                retry_seconds |-> Nothing,
                reset_at |-> utcnow + FALLBACK_SECONDS,
                limit_type |-> "unknown",
                error_preview |-> IF error_msg.form = "empty"
                                    THEN Nothing ELSE Some(error_msg)]

\* _load_limits: the in-memory map after the load (the file's content when the
\* file exists, the map as it was otherwise). No file is Nothing.
LoadLimits(data, file) == IF file # Nothing THEN file[1] ELSE data

\* del d[k]
Without(d, k) == [x \in DOMAIN d \ {k} |-> d[x]]

\* d[k] = v
\* A store that keeps only the key it is given.
WithAlone(d, k, v) == [x \in {k} |-> v]

With(d, k, v) == [x \in DOMAIN d \cup {k} |-> IF x = k THEN v ELSE d[x]]

EmptyMap == [x \in {} |-> Nothing]

----------------------------------------------------------------------------
(* The tool functions: pure part                                            *)
(* A command or a path is a text: a sequence of units, each unit a blank    *)
(* or a run of characters; lengths are counted in units.                    *)

BASH_DEFAULT_TIMEOUT == 120

BASH_MAX_TIMEOUT == 300

BASH_COMMAND_MAX == 1000

MAX_WRITE_SIZE == 102400

Blank == " "

Blanks(n) == [i \in 1..n |-> Blank]

\* s.strip()
Strip(s) ==
    LET inked == {i \in 1..Len(s) : s[i] # Blank}
    IN  IF inked = {} THEN <<>>
        ELSE SubSeq(s, CHOOSE i \in inked : \A j \in inked : i <= j,
                       CHOOSE i \in inked : \A j \in inked : j <= i)

\* s.lower()
Lower(s) ==
    [i \in 1..Len(s) |->
        CASE s[i] = "RM -RF " -> "rm -rf "
          [] s[i] = "chmod -R 777 " -> "chmod -r 777 "
          [] s[i] = "MKFS" -> "mkfs"
          [] OTHER -> s[i]]

\* needle in haystack
Contains(haystack, needle) ==
    \E i \in 0..(Len(haystack) - Len(needle)) :
        SubSeq(haystack, i + 1, i + Len(needle)) = needle

\* _sanitize_string(s, max_len): str(s)[:max_len]
SanitizeString(s, max_len) ==
    SubSeq(s, 1, IF Len(s) < max_len THEN Len(s) ELSE max_len)

DANGEROUS_COMMANDS ==
    { <<"rm -rf ", "/">>, <<"rm -rf ", "/", "*">>, <<"rm -rf ", "~">>,
      <<"mkfs">>, <<"dd if=">>, <<"> /dev/sd">>, <<"chmod -R 777 ", "/">>,
      <<":(){ :|:& };:">>, <<"curl ", "| bash">>, <<"wget ", "| bash">>,
      <<"sudo ", "rm -rf ">> }

\* _is_dangerous_command
IsDangerousCommand(cmd) ==
    LET cmd_lower == Strip(Lower(cmd))
    IN  \E danger \in DANGEROUS_COMMANDS : Contains(cmd_lower, Lower(danger))

Min(a, b) == IF a < b THEN a ELSE b

\* One blocking wait of a tool function on a subprocess or a network peer:
\* the timeout it passes (Nothing: none), and whether the tool function
\* returns when the timeout fires or goes on to its next statement.
Wait(timeout, on_timeout) == [timeout |-> timeout, on_timeout |-> on_timeout]

\* The waits of each tool function of the catalog, in the order the function
\* makes them. timeout is the timeout argument of execute_bash.
WaitsOf(name, timeout) ==
    CASE name = "execute_bash" ->
           <<Wait(Some(Min(timeout, BASH_MAX_TIMEOUT)), "return")>>
      [] name = "manage_service" -> <<Wait(Some(15), "return")>>
      [] name = "check_syntax" -> <<Wait(Some(10), "return")>>
      [] name = "safe_restart" ->
           <<Wait(Some(10), "continue"), Wait(Some(10), "continue"),
             Wait(Some(10), "continue"), Wait(Some(10), "continue")>>
      [] name = "github_remote_file" ->
           <<Wait(Some(10), "return"), Wait(Some(30), "return")>>
      [] name = "git_command" -> <<Wait(Some(30), "return")>>
      [] name = "github_push" ->
           <<Wait(Nothing, "return"), Wait(Nothing, "return"),
             Wait(Nothing, "return"), Wait(Nothing, "return"),
             Wait(Some(60), "return")>>
      [] name = "send_email" ->
           <<Wait(Nothing, "return"), Wait(Nothing, "return"),
             Wait(Nothing, "return")>>
      [] name = "read_email" ->
           <<Wait(Nothing, "return"), Wait(Nothing, "return"),
             Wait(Nothing, "return"), Wait(Nothing, "return")>>
      [] OTHER -> <<>>

\* What a tool function returns when the timeout of a wait fires.
TimeoutText(name, limit) ==
    CASE name = "execute_bash" -> <<"Timeout after", limit, "s">>
      [] name = "git_command" -> <<"Error:", "git command timed out">>
      [] OTHER -> <<"Error:", "timed out">>

CommandBlockedText == <<"Error:", "Command blocked for safety. Use safer alternatives.">>

EmptyCommandText == <<"Error:", "Empty command">>

\* The tool invocation in progress (or the last one): the tool's name, its
\* arguments and its locals.
Invocation(name, command, timeout, path, content) ==
    [name |-> name, command |-> command, timeout |-> timeout, step |-> 0,
     path |-> path, content |-> content, p |-> <<>>, original |-> Nothing]

NoInvocation == Invocation(None, <<>>, BASH_DEFAULT_TIMEOUT, <<>>, Nothing)

\* PROJECT_DIR, as a path text.
ProjectDir == <<"/home/pi/bot/">>

\* The symbolic links of the filesystem: the link's path and its target.
SymLinks == { [link |-> ProjectDir \o <<"link">>, to |-> ProjectDir \o <<".env">>] }

\* The path without its first "dir/", "../" pair, if it has one.
RECURSIVE Normalize(_)
Normalize(path) ==
    LET ups == {i \in 2..Len(path) : path[i] = "../"}
    IN  IF ups = {} THEN path
        ELSE LET i == CHOOSE i \in ups : \A j \in ups : i <= j
             IN  Normalize(SubSeq(path, 1, i - 2) \o SubSeq(path, i + 1, Len(path)))

\* Path(path).expanduser(), made absolute under PROJECT_DIR, .resolve()
Resolve(path) ==
    LET absolute == IF path # <<>> /\ path[1] = "/" THEN path ELSE ProjectDir \o path
        normal == Normalize(absolute)
    IN  IF \E l \in SymLinks : l.link = normal
          THEN (CHOOSE l \in SymLinks : l.link = normal).to
          ELSE normal

PROTECTED_FILES ==
    { <<".env">>, <<"gotchi", ".db">>, <<"src/", "drivers/">>, <<"src/", "ui/">>,
      <<"src/", "ui/", "gotchi_ui", ".py">> }

\* A protection test that knows the protected files but not the protected
\* directories.
IsProtectedPathFilesOnly(path) ==
    \E protected \in {<<".env">>, <<"gotchi", ".db">>} : Contains(path, protected)

\* _is_protected_path
IsProtectedPath(path) ==
    \E protected \in PROTECTED_FILES : Contains(path, protected)

\* p.with_suffix(p.suffix + ".bak")
BackupPath(path) == path \o <<".bak">>

\* The directories p.parent.mkdir(parents=True) makes sure of.
Parents(path) ==
    {SubSeq(path, 1, i) : i \in {j \in 1..(Len(path) - 1) :
                                   path[j] \in {"/home/pi/bot/", "src/", "drivers/",
                                                "fresh/", "data/", "new/", "tmp/"}}}

\* The content argument of write_file: its text and len(content).
Content(text, size) == Some([text |-> text, size |-> size])

\* What write_file returns.
EmptyPathText == <<"Error:", "Empty path">>

ContentNoneText == <<"Error:", "Content is None">>

ContentTooLargeText(size) == <<"Error:", "Content too large", size>>

ProtectedText(path) == <<"Error:", "Cannot write to protected file:">> \o path

WroteText(size, path) == <<"Wrote", size, "bytes to">> \o path

IOErrorText == <<"Error:", "OSError">>

FilePathRequiredText == <<"Error:", "file_path required">>

NoBackupText(backup) == <<"No backup found:">> \o backup

RestoredText(file_path) == <<"Restored">> \o file_path \o <<"from backup">>

----------------------------------------------------------------------------
(* Inputs                                                                   *)

Providers == {"litellm"}

\* Tool calls a provider response may carry: the tool's name, the shape of the
\* arguments payload, and how the tool's implementation behaves when entered.
Call(name, raw_args, behaves) ==
    [name |-> name, raw_args |-> raw_args, behaves |-> behaves]

cFace == Call("show_face", "object", "ok")

cRead == Call("read_file", "object", "ok")

cList == Call("list_directory", "object", "ok")

cFail == Call("read_file", "object", "raises")

cUnknown == Call("no_such_tool", "object", "ok")

cBadJson == Call("read_file", "invalid_json", "ok")

cWrongType == Call("read_file", "object_wrong_types", "ok")

\* The tool-call lists a free provider response is drawn from.
ToolBatches ==
    { <<cRead>>, <<cFace>>, <<cWrongType>>,
      <<cRead, cList>>, <<cRead, cRead>>, <<cFace, cRead>>,
      <<cBadJson, cUnknown, cFail>>, <<cRead, cRead, cRead, cList>>,
      <<cRead, cBadJson>>, <<cList, cRead, cRead, cRead>> }

\* msg.content of a final response.
FinalContents == {"answer", None}

\* What acompletion raises: the exception and its text.
ProviderErrors ==
    { [class |-> "RateLimitError", text |-> RetryIn(5)],
      [class |-> "RateLimitError", text |-> RetryIn(120)],
      [class |-> "RateLimitError", text |-> NoHintText],
      [class |-> "Timeout", text |-> NoHintText] }

\* The history argument of call().
Histories ==
    { <<>>,
      <<[role |-> "user", content |-> "earlier question"],
        [role |-> "assistant", content |-> "earlier answer"]>> }

\* The command argument of execute_bash: leading blanks, then words.
BashBodies ==
    { <<>>, <<"echo hi">>, <<"rm -rf ", "/">>, <<"RM -RF ", "/">>,
      <<"rm -rf ", "/", "tmp/x">>, <<"mkfs", ".ext4 /dev/sda1">>,
      <<"echo hi", "; ", "mkfs">>, <<"curl ", "| bash">>,
      <<"curl ", "http://x/install.sh ", "| bash">>, <<"chmod -R 777 ", "/">> }

BashPads == {0, BASH_COMMAND_MAX - 2, BASH_COMMAND_MAX - 1, BASH_COMMAND_MAX}

\* The timeout argument of execute_bash (the first is its default).
BashTimeouts == {BASH_DEFAULT_TIMEOUT, 5, BASH_MAX_TIMEOUT, BASH_MAX_TIMEOUT + 1, 86400}

\* The path argument of write_file.
WritePaths ==
    { <<>>, <<Blank>>, <<"notes", ".txt">>, <<"new/", "notes", ".txt">>,
      <<".env">>, <<"link">>, <<"tmp/", "../", ".env">>,
      <<"data/", "gotchi", ".db">>, <<"src/", "drivers/", "epd", ".py">>,
      <<"src/", "drivers/", "fresh/", "epd", ".py">> }

\* The file_path argument of restore_from_backup.
RestorePaths ==
    { <<>>, <<"notes", ".txt">>, <<".env">>, <<"link">>,
      <<"data/", "gotchi", ".db">>, <<"src/", "drivers/", "epd", ".py">> }

\* The content argument of write_file.
WriteContents ==
    { Nothing, Content("v1", 2), Content("v2", MAX_WRITE_SIZE),
      Content("v3", MAX_WRITE_SIZE + 1) }

\* The files the model follows: the targets of the paths and their backups.
FilePaths ==
    LET targets == {Resolve(path) : path \in WritePaths \ {<<>>, <<Blank>>}}
    IN  targets \cup {BackupPath(t) : t \in targets}

\* The filesystem before the first tool call: file -> Some(text), or Nothing
\* for a file that does not exist.
InitialFiles ==
    [f \in FilePaths |->
        CASE f = ProjectDir \o <<"notes", ".txt">> -> Some("v0")
          [] f = ProjectDir \o <<".env">> -> Some("secret")
          [] f = ProjectDir \o <<"data/", "gotchi", ".db">> -> Some("rows")
          [] f = ProjectDir \o <<"src/", "drivers/", "epd", ".py">> -> Some("driver")
          [] OTHER -> Nothing]

InitialDirs ==
    { ProjectDir, ProjectDir \o <<"data/">>, ProjectDir \o <<"src/">>,
      ProjectDir \o <<"src/", "drivers/">> }

----------------------------------------------------------------------------
(* Messages                                                                 *)

Msg(role, content, tool_calls, tool_call_id, name) ==
    [role |-> role, content |-> content, tool_calls |-> tool_calls,
     tool_call_id |-> tool_call_id, name |-> name]

\* The tool calls of the provider's n-th response as the loop sees them: the
\* provider issues each an id.
WithIds(n, b) ==
    [i \in 1..Len(b) |->
        [id |-> <<n, i>>, name |-> b[i].name, raw_args |-> b[i].raw_args,
         behaves |-> b[i].behaves]]

StopText == "STOP. You're repeating the same action. Summarize what you've found so far."

\* What call() gave its caller: nothing yet, a returned text, or a raised
\* exception (exc is its class).
NoOutcome == [kind |-> "none", text |-> <<>>, exc |-> None]

Returned(text) == [kind |-> "returned", text |-> text, exc |-> None]

Raised(exc) == [kind |-> "raised", text |-> <<>>, exc |-> exc]

NoExc == [class |-> None, text |-> EmptyText]

\* The providers whose limits are tracked.
TrackedProviders == {"claude", "litellm"}

\* The processes that have imported rate_limits and share rate_limits.json.
Processes == {"bot", "second"}

\* A process between two calls of the tracker; data is its _limits_data.
IdleWorker(data) ==
    [pc |-> "idle", op |-> None, provider |-> None, data |-> data,
     read_partial |-> FALSE]

\* The tasks of the event loop that call the router: the handler of a user
\* message, the heartbeat job and the cron scheduler's job.
Tasks == {"user", "heartbeat", "cron"}

\* A task that is not calling the router; outer tells whether the task is
\* inside its own "async with router.lock".
IdleTask == [pc |-> "idle", outer |-> FALSE]

----------------------------------------------------------------------------
(* Message delivery: pure part                                              *)
(* A message text is a sequence of characters: "x" stands for any           *)
(* character that is neither a backtick nor white space. Offsets count      *)
(* from 0, as in the code.                                                  *)

Backtick == "bt"

Newline == "nl"

Space == "sp"

Fence == <<Backtick, Backtick, Backtick>>

Xs(n) == [i \in 1..n |-> "x"]

\* s[a:b]
Slice(s, a, b) == SubSeq(s, a + 1, Min(b, Len(s)))

\* Whether s has the fence marker, three backticks, at offset i.
FenceAt(s, i) ==
    /\ i + 3 <= Len(s)
    /\ s[i + 1] = Backtick /\ s[i + 2] = Backtick /\ s[i + 3] = Backtick

\* s.count(marker) from offset i on: occurrences that do not overlap, found
\* from the left.
RECURSIVE CountFrom(_, _)
CountFrom(s, i) ==
    IF i + 3 > Len(s) THEN 0
    ELSE IF FenceAt(s, i) THEN 1 + CountFrom(s, i + 3)
    ELSE CountFrom(s, i + 1)

CountFences(s) == CountFrom(s, 0)

\* s.find(marker, start): the first offset from start on, or -1.
FindFence(s, start) ==
    LET found == {i \in start..Len(s) : FenceAt(s, i)}
    IN  IF found = {} THEN -1 ELSE CHOOSE i \in found : \A j \in found : i <= j

\* s.rfind("\n", start, end): the last offset in start..end-1, or -1.
RFindNewline(s, start, end) ==
    LET found == {i \in start..(Min(end, Len(s)) - 1) : s[i + 1] = Newline}
    IN  IF found = {} THEN -1 ELSE CHOOSE i \in found : \A j \in found : i >= j

IsSpace(c) == c \in {Newline, Space}

\* s.strip()
RECURSIVE StripText(_)
StripText(s) ==
    IF s = <<>> THEN s
    ELSE IF IsSpace(s[1]) THEN StripText(Tail(s))
    ELSE IF IsSpace(s[Len(s)]) THEN StripText(SubSeq(s, 1, Len(s) - 1))
    ELSE s

\* The chunk_end one pass of the loop of _split_text_preserving_blocks
\* computes. The test "last_newline > current_pos + max_length * 0.8" is
\* made on five times each side.
ChunkEnd(s, pos, max_length) ==
    LET full_prefix == Slice(s, 0, pos + max_length)
        closing_idx == FindFence(s, pos + max_length)
        last_newline == RFindNewline(s, pos, pos + max_length)
    IN  IF CountFences(full_prefix) % 2 # 0
          THEN IF closing_idx # -1 THEN closing_idx + 3 ELSE Len(s)
          ELSE IF 5 * last_newline > 5 * pos + 4 * max_length
                 THEN last_newline
                 ELSE pos + max_length

\* The texts given to the splitter: an opened and closed code block with a
\* one-line or two-line body, after a run of i characters and before a run
\* of j; a run, a line break with white space, another run. All have their
\* fences in pairs, so that sanitize_markdown leaves them as they are.
SplitBodies ==
    { <<"x">>, <<Newline, "x", Newline>>, <<"x", "x", Newline, "x">> }

SplitTexts ==
    { Xs(i) \o Fence \o body \o Fence \o Xs(j) :
          i \in 0..(SplitLimit + 1), body \in SplitBodies, j \in {0, 4, SplitLimit + 1} }
    \cup
    { Xs(i) \o <<Space, Newline>> \o Xs(j) :
          i \in {0, SplitLimit - 4, SplitLimit - 3, SplitLimit - 2, SplitLimit},
          j \in {1, SplitLimit} }

----------------------------------------------------------------------------
(* The router: LLMRouter.call                                               *)

\* The tasks that call the router.
RouterCallers == {"user", "heartbeat"}

\* How ClaudeConnector.call ends: the text of the CLI, RateLimitError,
\* LLMError, or an exception of another class. How LiteLLMConnector.call
\* ends for the router: a text, or RateLimitError.
ClaudeResults == {"text", "RateLimitError", "LLMError", "OSError"}

LiteLLMResults == {"text", "RateLimitError"}

\* The except clause around claude.call: what it catches.
FallsBackOnAnyError(result) == result # "text"

FallsBack(result) == result = "RateLimitError"

\* A router call and its history: the force_lite it read, the
\* is_available() of the primary it read, the connectors it invoked in
\* order, how the primary's call ended, the connector whose text it
\* returned, the name it returned and the exception it raised.
NoRouterCall ==
    [pc |-> "idle", lite |-> Nothing, claude_ok |-> Nothing, invoked |-> <<>>,
     claude_result |-> None, producer |-> None, name |-> None, exc |-> None]

\* The end of router.call: the fallback to the secondary connector, after
\* the primary was unavailable or rate limited.
Fallback(call, litellm_ok) ==
    IF litellm_ok
      THEN [call EXCEPT !.pc = "litellm", !.invoked = Append(@, "litellm")]
      ELSE [call EXCEPT !.pc = "raised", !.exc = "LLMError: No LLM available"]

----------------------------------------------------------------------------
(* The cron scheduler: jobs                                                 *)

\* The ids uuid4 gives the jobs, in the order of their creation, and the
\* names their creators give them.
JobIds == {"0a1b2c3d", "4e5f6a7b"}

JobNames == {"tea", "0a1b2c3d"}

\* A one-shot job as add_scheduled_task makes it: delete_after_run is set
\* and next_run is run_at.
CronJob(id, name, next_run) == [id |-> id, name |-> name, next_run |-> next_run]

JobIdsOf(store) == {store[i].id : i \in 1..Len(store)}

\* self.jobs after remove_job(job_id_or_name): the job of that id, or else
\* the first job of that name.
RemoveJob(store, job_id_or_name) ==
    IF job_id_or_name \in JobIdsOf(store)
      THEN SelectSeq(store, LAMBDA job : job.id # job_id_or_name)
      ELSE LET named == {i \in 1..Len(store) : store[i].name = job_id_or_name}
           IN  IF named = {} THEN store
               ELSE LET first == CHOOSE i \in named : \A j \in named : i <= j
                    IN  SubSeq(store, 1, first - 1) \o SubSeq(store, first + 1, Len(store))

\* Whether remove_job saves: it does when it removed a job.
RemoveSaves(store, job_id_or_name) == RemoveJob(store, job_id_or_name) # store

----------------------------------------------------------------------------
(* The agent loop: LiteLLMConnector.call                                    *)

NoId == <<>>

Init ==
    /\ lib_available \in BOOLEAN
    /\ pc = "idle"
    /\ outcome = NoOutcome
    /\ messages = <<>>
    /\ turn = 0
    /\ tool_calls_count = 0
    /\ recent_tools = <<>>
    /\ tool_actions = <<>>
    /\ batch = <<>>
    /\ idx = 0
    /\ provider_calls = 0
    /\ last_exc = NoExc
    /\ req_log = <<>>
    /\ limits_data = EmptyMap
    /\ limits_file = Nothing
    /\ now = 0
    /\ hits = 0
    /\ expired = {}
    /\ tool_pc = "idle"
    /\ tool_inv = NoInvocation
    /\ tool_result = Nothing
    /\ fs = InitialFiles
    /\ dirs = InitialDirs
    /\ procs = <<>>
    /\ fs_log = <<>>
    /\ workers = [w \in Processes |-> IdleWorker(EmptyMap)]
    /\ torn = FALSE
    /\ last_done = [p \in TrackedProviders |-> "none"]
    /\ force_lite = TRUE
    /\ lock_holder = Nothing
    /\ lock_waiters = <<>>
    /\ tasks = [t \in Tasks |-> IdleTask]
    /\ split_pc = "idle"
    /\ split_text = <<>>
    /\ current_pos = 0
    /\ chunks = <<>>
    /\ chunk_ends = <<>>
    /\ pending_tasks = <<>>
    /\ next_id = 1
    /\ ppt_pc = "idle"
    /\ ppt_tasks = <<>>
    /\ delivered = {}
    /\ jobs = <<>>
    /\ jobs_file = <<>>
    /\ clock = 0
    /\ check_pc = "idle"
    /\ check_now = 0
    /\ check_todo = <<>>
    /\ runs = [id \in JobIds |-> 0]
    /\ hm_pc = "awaiting"
    /\ saved_reply = Nothing
    /\ answered = 0
    /\ error_shown = Nothing
    /\ models_used = {}
    /\ conn_model = DEFAULT_LITE_PRESET
    /\ rc = [t \in RouterCallers |-> NoRouterCall]

\* call() up to the first provider call: the import of the provider library
\* (LLMError when it is missing), the message list [system, ...history, user]
\* and the loop's locals.
call_start ==
    /\ pc = "idle"
    /\ IF ~lib_available
         THEN /\ outcome' = Raised("LLMError")
              /\ last_exc' = [class |-> "LLMError", text |-> NoHintText]
              /\ pc' = "done"
              /\ UNCHANGED <<messages, models_used>>
         ELSE /\ models_used' = models_used \cup {conn_model}
              /\ \E history \in Histories :
                   messages' =
                       <<Msg("system", "system prompt", <<>>, NoId, None)>>
                       \o [i \in 1..Len(history) |->
                              Msg(history[i].role, history[i].content, <<>>, NoId, None)]
                       \o <<Msg("user", "prompt", <<>>, NoId, None)>>
              /\ pc' = "await_provider"
              /\ UNCHANGED <<outcome, last_exc>>
    /\ UNCHANGED <<lib_available, turn, tool_calls_count, recent_tools,
                   tool_actions, batch, idx, provider_calls, req_log>>
    /\ UNCHANGED envVars

\* config.ENABLE_LITELLM_TOOLS, at its default: the environment does not
\* set it.
ENABLE_LITELLM_TOOLS == FALSE

\* The tool_choice of the request: call() reads the flag here and nowhere
\* else; what the response carries is the provider's affair.
ToolChoice == IF ENABLE_LITELLM_TOOLS THEN "auto" ELSE "none"

\* The tool-call lists the provider may answer with on this call.
Offered == IF provider_calls < FreeTurns THEN ToolBatches ELSE {batch}

\* The assistant message appended for a response.
AssistantMsgWithoutCalls(content, tool_calls) ==
    Msg("assistant", content, <<>>, NoId, None)

AssistantMsg(content, tool_calls) ==
    Msg("assistant", content, tool_calls, NoId, None)

\* acompletion returns a response without tool calls: the final answer.
provider_returns_final ==
    /\ pc = "await_provider"
    /\ \E content \in FinalContents :
          /\ messages' = Append(messages, AssistantMsg(content, <<>>))
          /\ outcome' = Returned(FinalText(content, tool_actions))
    /\ provider_calls' = provider_calls + 1
    /\ pc' = "done"
    /\ UNCHANGED <<lib_available, turn, tool_calls_count, recent_tools,
                   tool_actions, batch, idx, last_exc, req_log,
                   models_used>>
    /\ UNCHANGED envVars

\* acompletion returns a response that requests tools.
provider_returns_tool_calls ==
    /\ pc = "await_provider"
    /\ \E b \in Offered :
          LET tool_calls == WithIds(provider_calls + 1, b)
          IN  /\ batch' = tool_calls
              /\ messages' = Append(messages, AssistantMsg(None, tool_calls))
    /\ idx' = 1
    /\ provider_calls' = provider_calls + 1
    /\ pc' = "tools"
    /\ UNCHANGED <<lib_available, outcome, turn, tool_calls_count, recent_tools,
                   tool_actions, last_exc, req_log,
                   models_used>>
    /\ UNCHANGED envVars

\* What the outer "except Exception" clause of call() gives the caller.
OuterExceptPropagates(e) == Raised(e.class)

OuterExcept(e) == Returned(ErrorConnectingText(e.class))

\* acompletion raises (throttling, timeout, any API error).
provider_raises ==
    /\ pc = "await_provider"
    /\ \E e \in ProviderErrors :
          /\ last_exc' = e
          /\ outcome' = OuterExcept(e)
    /\ provider_calls' = provider_calls + 1
    /\ pc' = "done"
    /\ UNCHANGED <<lib_available, messages, turn, tool_calls_count, recent_tools,
                   tool_actions, batch, idx, req_log,
                   models_used>>
    /\ UNCHANGED envVars

\* tool_calls_count > MAX_TOOL_CALLS
OverBudgetOffByOne(count) == count >= MAX_TOOL_CALLS

OverBudget(count) == count > MAX_TOOL_CALLS

\* A buffer that is appended to and never shortened.
PushedWithoutPop(recent, func_name) == Append(recent, func_name)

\* recent_tools after append(func_name) and the pop(0) that keeps MAX_REPEAT.
Pushed(recent, func_name) ==
    LET r == Append(recent, func_name)
    IN  IF Len(r) > MAX_REPEAT THEN Tail(r) ELSE r

\* len(recent_tools) >= MAX_REPEAT and len(set(recent_tools)) == 1
LoopDetectedAfterFour(recent) ==
    /\ Len(recent) > MAX_REPEAT
    /\ Cardinality({recent[i] : i \in 1..Len(recent)}) = 1

LoopDetected(recent) ==
    /\ Len(recent) >= MAX_REPEAT
    /\ Cardinality({recent[i] : i \in 1..Len(recent)}) = 1

\* The tool_call of the current iteration of "for tool_call in msg.tool_calls".
CurrentCallReversed == batch[Len(batch) + 1 - idx]

CurrentCall == batch[idx]

\* Whether the outer loop has a turn left after turn t: range(MAX_TURNS).
TurnsLeftOneMore(t) == t + 1 <= MAX_TURNS

TurnsLeft(t) == t + 1 < MAX_TURNS

\* The end of one iteration of "for tool_call in msg.tool_calls": the next
\* tool call, or after the last one the next turn of the outer loop, which
\* ends with the fixed text once range(MAX_TURNS) is exhausted.
NextCall ==
    IF idx < Len(batch)
      THEN /\ idx' = idx + 1
           /\ UNCHANGED <<turn, pc, outcome, models_used>>
      ELSE /\ idx' = idx
           /\ turn' = turn + 1
           /\ IF TurnsLeft(turn)
                THEN /\ pc' = "await_provider"
                     /\ models_used' = models_used \cup {conn_model}
                     /\ UNCHANGED outcome
                ELSE /\ pc' = "done"
                     /\ outcome' = Returned(MaxTurnsText)
                     /\ UNCHANGED models_used

\* The entry of the request history for the current tool call.
Logged(fate, result) ==
    [turn |-> turn, id |-> CurrentCall.id, name |-> CurrentCall.name,
     raw_args |-> CurrentCall.raw_args, fate |-> fate, result |-> result,
     msgs |-> Len(messages)]

NoResult == [kind |-> None, ran |-> FALSE]

\* The tool call is over the session's budget: the session ends.
tool_call_limit_reached ==
    /\ pc = "tools"
    /\ OverBudget(tool_calls_count + 1)
    /\ tool_calls_count' = tool_calls_count + 1
    /\ req_log' = Append(req_log, Logged("refused", NoResult))
    /\ outcome' = Returned(TooManyToolCallsText)
    /\ pc' = "done"
    /\ UNCHANGED <<lib_available, messages, turn, recent_tools, tool_actions,
                   batch, idx, provider_calls, last_exc,
                   models_used>>
    /\ UNCHANGED envVars

\* The tool call is the third of the same name in a row: it is not
\* dispatched, a user message is appended and the buffer is reset.
tool_call_loop_detected ==
    /\ pc = "tools"
    /\ ~OverBudget(tool_calls_count + 1)
    /\ LoopDetected(Pushed(recent_tools, CurrentCall.name))
    /\ tool_calls_count' = tool_calls_count + 1
    /\ req_log' = Append(req_log, Logged("skipped", NoResult))
    /\ messages' = Append(messages, Msg("user", StopText, <<>>, NoId, None))
    /\ recent_tools' = <<>>
    /\ NextCall
    /\ UNCHANGED <<lib_available, tool_actions, batch, provider_calls, last_exc>>
    /\ UNCHANGED envVars

\* The tool call is dispatched, its action line recorded and its result
\* appended as a tool message.
tool_call_dispatched ==
    /\ pc = "tools"
    /\ ~OverBudget(tool_calls_count + 1)
    /\ ~LoopDetected(Pushed(recent_tools, CurrentCall.name))
    /\ LET tool_call == CurrentCall
           func_name == tool_call.name
           args == ParseArgs(tool_call.raw_args)
           result == Dispatch(func_name, args, tool_call.behaves)
       IN  /\ ~FormatRaises(func_name, args)
           /\ req_log' = Append(req_log, Logged("dispatched", result))
           /\ tool_actions' = Append(tool_actions,
                                     FormatToolAction(func_name, args, result))
           /\ messages' = Append(messages,
                  Msg("tool", result.kind, <<>>, tool_call.id, func_name))
           /\ recent_tools' = Pushed(recent_tools, func_name)
    /\ tool_calls_count' = tool_calls_count + 1
    /\ NextCall
    /\ UNCHANGED <<lib_available, batch, provider_calls, last_exc>>
    /\ UNCHANGED envVars

\* The tool call is dispatched and _format_tool_action raises on its
\* arguments: the outer except clause ends the session with its text.
tool_call_format_raises ==
    /\ pc = "tools"
    /\ ~OverBudget(tool_calls_count + 1)
    /\ ~LoopDetected(Pushed(recent_tools, CurrentCall.name))
    /\ LET tool_call == CurrentCall
           func_name == tool_call.name
           args == ParseArgs(tool_call.raw_args)
           result == Dispatch(func_name, args, tool_call.behaves)
           e == [class |-> "AttributeError", text |-> NoHintText]
       IN  /\ FormatRaises(func_name, args)
           /\ req_log' = Append(req_log, Logged("dispatched", result))
           /\ recent_tools' = Pushed(recent_tools, func_name)
           /\ last_exc' = e
           /\ outcome' = OuterExcept(e)
    /\ tool_calls_count' = tool_calls_count + 1
    /\ pc' = "done"
    /\ UNCHANGED <<lib_available, messages, turn, tool_actions, batch, idx,
                   provider_calls,
                   models_used>>
    /\ UNCHANGED envVars

----------------------------------------------------------------------------
(* The rate-limit tracker: operations                                       *)

\* A record_rate_limit that keeps the record in memory only.
record_rate_limit_unsaved(provider, error_msg) ==
    /\ limits_data' = With(LoadLimits(limits_data, limits_file), provider,
                           LimitRecord(error_msg, now))
    /\ UNCHANGED <<limits_file, now>>

\* record_rate_limit(provider, error_msg): load, store the record, save.
record_rate_limit(provider, error_msg) ==
    /\ limits_data' = With(LoadLimits(limits_data, limits_file), provider,
                           LimitRecord(error_msg, now))
    /\ limits_file' = Some(limits_data')
    /\ UNCHANGED now

\* A clear_limit that deletes the record from memory only.
clear_limit_unsaved(provider) ==
    LET loaded == LoadLimits(limits_data, limits_file)
    IN  /\ limits_data' = IF provider \in DOMAIN loaded
                            THEN Without(loaded, provider) ELSE loaded
        /\ UNCHANGED <<limits_file, now, hits>>

\* clear_limit(provider): load, and delete and save if the record is there.
clear_limit(provider) ==
    LET loaded == LoadLimits(limits_data, limits_file)
    IN  /\ limits_data' = IF provider \in DOMAIN loaded
                            THEN Without(loaded, provider) ELSE loaded
        /\ limits_file' = IF provider \in DOMAIN loaded
                            THEN Some(limits_data') ELSE limits_file
        /\ UNCHANGED <<now, hits>>

\* A caller of the tracker records a throttling event.
tracker_record ==
    /\ \E p \in Providers :
          /\ record_rate_limit(p, RetryIn(5))
          /\ expired' = expired \ {p}
    /\ UNCHANGED <<hits, nonTrackerVars>>

\* A caller of the tracker clears a provider's record.
tracker_clear ==
    /\ \E p \in Providers : clear_limit(p)
    /\ UNCHANGED <<expired, nonTrackerVars>>

\* An is_limited that still reports the limit at the second of its reset.
IsLimitedInclusive(provider) ==
    LET loaded == LoadLimits(limits_data, limits_file)
    IN  /\ provider \in DOMAIN loaded
        /\ now <= loaded[provider].reset_at

\* What is_limited(provider) returns.
IsLimited(provider) ==
    LET loaded == LoadLimits(limits_data, limits_file)
    IN  /\ provider \in DOMAIN loaded
        /\ now < loaded[provider].reset_at

\* is_limited(provider): load, and clear the record if it has expired.
is_limited(provider) ==
    LET loaded == LoadLimits(limits_data, limits_file)
    IN  IF provider \in DOMAIN loaded /\ now >= loaded[provider].reset_at
          THEN clear_limit(provider)
          ELSE /\ limits_data' = loaded
               /\ UNCHANGED <<limits_file, now, hits>>

\* What get_retry_after(provider) returns.
GetRetryAfter(provider) ==
    LET loaded == LoadLimits(limits_data, limits_file)
    IN  IF provider \notin DOMAIN loaded THEN Nothing
        ELSE IF loaded[provider].reset_at - now > 0
          THEN Some(loaded[provider].reset_at - now)
          ELSE Some(0)

\* should_auto_retry a caller would use if it went by the record's class.
ShouldAutoRetryByClass(provider) ==
    LET loaded == LoadLimits(limits_data, limits_file)
    IN  IF provider \in DOMAIN loaded /\ loaded[provider].limit_type = "short"
             /\ now < loaded[provider].reset_at
          THEN GetRetryAfter(provider)
          ELSE Nothing

\* What should_auto_retry(provider) returns.
ShouldAutoRetry(provider) ==
    LET remaining == GetRetryAfter(provider)
    IN  IF remaining = Nothing THEN Nothing
        ELSE IF remaining[1] <= SHORT_LIMIT_THRESHOLD /\ remaining[1] > 0
          THEN remaining
          ELSE Nothing

\* The error texts given to record_rate_limit, at a given time: the forms
\* the parser documents, a text without hint and the empty text.
LimitTexts(utcnow) ==
    { RetryIn(0), RetryIn(5), RetryIn(SHORT_LIMIT_THRESHOLD),
      RetryIn(SHORT_LIMIT_THRESHOLD + 1),
      ErrText("try again in Ns", 45, 0), ErrText("Retry-After: N", 30, 0),
      ErrText("retry after N seconds", 60, 0), ErrText("rate_limit_delay: N", 15, 0),
      ErrText("retry after ISO", 2025, utcnow + 30),
      NoHintText, EmptyText }

\* A provider call was throttled: its error text is recorded.
limit_recorded ==
    /\ hits < MaxHits
    /\ \E provider \in TrackedProviders, error_msg \in LimitTexts(now) :
          /\ record_rate_limit(provider, error_msg)
          /\ expired' = expired \ {provider}
    /\ hits' = hits + 1
    /\ UNCHANGED nonTrackerVars

\* A caller asks whether a provider is limited.
limit_checked ==
    /\ \E provider \in TrackedProviders :
          /\ is_limited(provider)
          /\ expired' =
                 IF /\ provider \in DOMAIN LoadLimits(limits_data, limits_file)
                    /\ provider \notin DOMAIN limits_data'
                   THEN expired \cup {provider} ELSE expired
    /\ UNCHANGED nonTrackerVars

\* A caller clears a provider's record.
limit_cleared ==
    /\ \E provider \in TrackedProviders : clear_limit(provider)
    /\ UNCHANGED <<expired, nonTrackerVars>>

\* Time passes, up to the second before or the second of the reset of a
\* record.
time_passes ==
    /\ LET stored == LoadLimits(limits_data, limits_file)
       IN  \E provider \in DOMAIN stored, early \in {0, 1} :
              /\ stored[provider].reset_at - early > now
              /\ now' = stored[provider].reset_at - early
    /\ UNCHANGED <<limits_data, limits_file, hits, expired>>
    /\ UNCHANGED nonTrackerVars

\* The process ends and is started again: the module is imported anew, its
\* map is the empty dict, and rate_limits.json is as it was left.
process_restarts ==
    /\ limits_data' = EmptyMap
    /\ UNCHANGED <<limits_file, now, hits, expired>>
    /\ UNCHANGED nonTrackerVars

----------------------------------------------------------------------------
(* The rate-limit tracker used by several processes, step by step           *)

\* _load_limits in a process: the file's content when the file exists and
\* parses, the empty dict when it exists and json.loads raises, the map as
\* it was when there is no file.
LoadShared(data) == IF torn THEN EmptyMap ELSE LoadLimits(data, limits_file)

\* A process calls get_retry_after, record_rate_limit or clear_limit: the
\* call loads the map; get_retry_after returns, record_rate_limit puts the
\* record into the map, clear_limit deletes the key if it is there and
\* returns if it is not. What remains of record and clear is _save_limits.
worker_calls ==
    /\ \E w \in Processes, op \in {"get_retry_after", "record_rate_limit", "clear_limit"},
          provider \in TrackedProviders, error_msg \in {RetryIn(5), NoHintText} :
          LET loaded == LoadShared(workers[w].data)
              saves == \/ op = "record_rate_limit"
                       \/ op = "clear_limit" /\ provider \in DOMAIN loaded
              data == CASE op = "record_rate_limit" ->
                              With(loaded, provider, LimitRecord(error_msg, now))
                        [] op = "clear_limit" /\ provider \in DOMAIN loaded ->
                              Without(loaded, provider)
                        [] OTHER -> loaded
          IN  /\ workers[w].pc = "idle"
              /\ workers' = [workers EXCEPT ![w] =
                                [pc |-> IF saves THEN "save" ELSE "idle",
                                 op |-> IF saves THEN op ELSE None,
                                 provider |-> IF saves THEN provider ELSE None,
                                 data |-> data,
                                 read_partial |-> torn]]
              /\ last_done' = IF op = "clear_limit" /\ ~saves
                                THEN [last_done EXCEPT ![provider] = "clear"]
                                ELSE last_done
    /\ UNCHANGED <<torn, trackerVars, storeFrame>>

\* _save_limits, first half: write_text opens rate_limits.json for writing,
\* which empties it.
worker_opens ==
    /\ \E w \in Processes :
          /\ workers[w].pc = "save"
          /\ workers' = [workers EXCEPT ![w].pc = "write"]
    /\ limits_file' = Some(EmptyMap)
    /\ torn' = TRUE
    /\ UNCHANGED <<limits_data, now, hits, expired, last_done, storeFrame>>

\* _save_limits, second half: the text of the map is written from the start
\* of the file and the call returns. Where another process has written since
\* this one opened the file, the other's text is overwritten from the start:
\* it is replaced if it is no longer than this one's, and its tail is left
\* behind this one's text if it is longer.
worker_writes ==
    /\ \E w \in Processes, outcome_of_race \in {"replaced", "tail left"} :
          /\ workers[w].pc = "write"
          /\ outcome_of_race = "tail left" => ~torn
          /\ IF outcome_of_race = "replaced"
               THEN /\ limits_file' = Some(workers[w].data)
                    /\ torn' = FALSE
               ELSE /\ limits_file' = Some(EmptyMap)
                    /\ torn' = TRUE
          /\ workers' = [workers EXCEPT ![w] = IdleWorker(workers[w].data)]
          /\ last_done' =
                 [last_done EXCEPT ![workers[w].provider] =
                      IF workers[w].op = "record_rate_limit" THEN "record" ELSE "clear"]
    /\ UNCHANGED <<limits_data, now, hits, expired, storeFrame>>

\* A process dies, at any point of a call or between calls, and is started
\* again with the empty map of the import.
worker_dies ==
    /\ \E w \in Processes :
          workers' = [workers EXCEPT ![w] = IdleWorker(EmptyMap)]
    /\ UNCHANGED <<torn, last_done, trackerVars, storeFrame>>

----------------------------------------------------------------------------
(* The router and the lock of the primary provider                          *)

\* A lock that lets every caller in.
LockFreeIgnored(holder, waiters) == TRUE

\* asyncio.Lock.acquire returns at once when the lock is not held and no
\* task waits for it; otherwise the caller joins the waiters.
LockFree(holder, waiters) == holder = Nothing /\ waiters = <<>>

\* lock.locked()
Locked == lock_holder # Nothing

\* LLMRouter.call of task t, from its entry to its first suspension, given
\* the lock as the task found it: where the task is then, and the lock. An
\* LLMError raised on the way leaves the caller's "async with", if any,
\* which releases the lock.
RouterCall(t, holder, waiters, outer, lite, claude_ok, litellm_ok) ==
    LET raised == [pc |-> "idle", outer |-> FALSE, waiters |-> waiters,
                   holder |-> IF outer THEN Nothing ELSE holder]
        secondary == IF litellm_ok
                       THEN [pc |-> "litellm_call", outer |-> outer,
                             waiters |-> waiters, holder |-> holder]
                       ELSE raised
    IN  IF lite THEN secondary
        ELSE IF claude_ok
          THEN IF LockFree(holder, waiters)
                 THEN [pc |-> "claude_execute", outer |-> outer,
                       waiters |-> waiters, holder |-> Some(t)]
                 ELSE [pc |-> "claude_wait", outer |-> outer,
                       waiters |-> Append(waiters, t), holder |-> holder]
        ELSE secondary

\* The task and the lock become what a step of the task made of them.
Becomes(t, r) ==
    /\ tasks' = [tasks EXCEPT ![t] = [pc |-> r.pc, outer |-> r.outer]]
    /\ lock_holder' = r.holder
    /\ lock_waiters' = r.waiters

\* "async with router.lock: await router.call(...)" of task t: the lock is
\* taken if it is free and the router called under it; otherwise the task
\* waits for the lock.
CallUnderLock(t, claude_ok, litellm_ok) ==
    IF lock_holder = Nothing /\ lock_waiters = <<>>
      THEN Becomes(t, RouterCall(t, Some(t), lock_waiters, TRUE, force_lite,
                                 claude_ok, litellm_ok))
      ELSE Becomes(t, [pc |-> "outer_wait", outer |-> FALSE, holder |-> lock_holder,
                       waiters |-> Append(lock_waiters, t)])

\* handle_message calls router.call for a user message.
handle_message ==
    /\ tasks["user"].pc = "idle"
    /\ \E claude_ok \in BOOLEAN, litellm_ok \in BOOLEAN :
          Becomes("user", RouterCall("user", lock_holder, lock_waiters, FALSE,
                                     force_lite, claude_ok, litellm_ok))
    /\ UNCHANGED <<force_lite, lockFrame>>

\* The heartbeat retries a queued request: router.call, as for a message.
process_pending_tasks ==
    /\ tasks["heartbeat"].pc = "idle"
    /\ \E claude_ok \in BOOLEAN, litellm_ok \in BOOLEAN :
          Becomes("heartbeat", RouterCall("heartbeat", lock_holder, lock_waiters,
                                          FALSE, force_lite, claude_ok, litellm_ok))
    /\ UNCHANGED <<force_lite, lockFrame>>

\* The heartbeat's own call: the secondary provider directly when the lock
\* is held and lite mode is off, the router under the lock otherwise.
send_heartbeat ==
    /\ tasks["heartbeat"].pc = "idle"
    /\ IF Locked /\ ~force_lite
         THEN Becomes("heartbeat", [pc |-> "litellm_call", outer |-> FALSE,
                                    holder |-> lock_holder, waiters |-> lock_waiters])
         ELSE \E claude_ok \in BOOLEAN, litellm_ok \in BOOLEAN :
                 CallUnderLock("heartbeat", claude_ok, litellm_ok)
    /\ UNCHANGED <<force_lite, lockFrame>>

\* A cron job that needs the model: the canned text alone, or nothing, when
\* the lock is held; the router under the lock otherwise.
run_cron_job ==
    /\ tasks["cron"].pc = "idle"
    /\ IF Locked
         THEN Becomes("cron", [pc |-> "fallback_only", outer |-> FALSE,
                               holder |-> lock_holder, waiters |-> lock_waiters])
         ELSE \E claude_ok \in BOOLEAN, litellm_ok \in BOOLEAN :
                 CallUnderLock("cron", claude_ok, litellm_ok)
    /\ UNCHANGED <<force_lite, lockFrame>>

\* The cron job that found the lock held has sent its canned text.
fallback_sent ==
    /\ tasks["cron"].pc = "fallback_only"
    /\ tasks' = [tasks EXCEPT !["cron"] = IdleTask]
    /\ UNCHANGED <<force_lite, lock_holder, lock_waiters, lockFrame>>

\* The released lock goes to the first waiter, which goes on: into
\* _execute if it waited in ClaudeConnector.call, into router.call if it
\* waited in its own "async with router.lock".
lock_granted ==
    /\ lock_holder = Nothing
    /\ lock_waiters # <<>>
    /\ LET t == Head(lock_waiters)
       IN  IF tasks[t].pc = "claude_wait"
             THEN Becomes(t, [pc |-> "claude_execute", outer |-> tasks[t].outer,
                              holder |-> Some(t), waiters |-> Tail(lock_waiters)])
             ELSE \E claude_ok \in BOOLEAN, litellm_ok \in BOOLEAN :
                     Becomes(t, RouterCall(t, Some(t), Tail(lock_waiters), TRUE,
                                           force_lite, claude_ok, litellm_ok))
    /\ UNCHANGED <<force_lite, lockFrame>>

\* _execute ends, with the text of the CLI, a RateLimitError or an LLMError
\* (the timeout included), and the lock of ClaudeConnector.call is released.
\* The router answers a RateLimitError by calling the secondary provider.
claude_returns ==
    /\ \E t \in Tasks, result \in {"text", "RateLimitError", "LLMError"},
          litellm_ok \in BOOLEAN :
          /\ tasks[t].pc = "claude_execute"
          /\ IF result = "RateLimitError" /\ litellm_ok
               THEN Becomes(t, [pc |-> "litellm_call", outer |-> tasks[t].outer,
                                holder |-> Nothing, waiters |-> lock_waiters])
               ELSE Becomes(t, [pc |-> "idle", outer |-> FALSE,
                                holder |-> Nothing, waiters |-> lock_waiters])
    /\ UNCHANGED <<force_lite, lockFrame>>

\* LiteLLMConnector.call ends; a task that called under its own
\* "async with router.lock" leaves it and releases the lock.
litellm_returns ==
    /\ \E t \in Tasks :
          /\ tasks[t].pc = "litellm_call"
          /\ Becomes(t, [pc |-> "idle", outer |-> FALSE, waiters |-> lock_waiters,
                          holder |-> IF tasks[t].outer THEN Nothing ELSE lock_holder])
    /\ UNCHANGED <<force_lite, lockFrame>>

\* /pro, /lite, /mode or a command mail of the sibling bot switches the mode.
toggle_lite_mode ==
    /\ force_lite' = ~force_lite
    /\ UNCHANGED <<lock_holder, lock_waiters, tasks, lockFrame>>

----------------------------------------------------------------------------
(* Message delivery: _split_text_preserving_blocks                          *)

\* The function is called with a text: a text within the limit is returned
\* as the one chunk, a longer one enters the loop.
split_begin ==
    /\ split_pc \in {"idle", "done"}
    /\ \E t \in SplitTexts :
          /\ split_text' = t
          /\ IF Len(t) <= SplitLimit
               THEN /\ chunks' = <<t>>
                    /\ split_pc' = "done"
               ELSE /\ chunks' = <<>>
                    /\ split_pc' = "loop"
    /\ current_pos' = 0
    /\ chunk_ends' = <<>>
    /\ UNCHANGED splitFrame

\* One pass of "while current_pos < len(split_text)": the chunk up to chunk_end,
\* stripped, is appended unless it is empty.
split_loop ==
    /\ split_pc = "loop"
    /\ current_pos < Len(split_text)
    /\ LET chunk_end == ChunkEnd(split_text, current_pos, SplitLimit)
           chunk == StripText(Slice(split_text, current_pos, chunk_end))
       IN  /\ chunks' = IF chunk # <<>> THEN Append(chunks, chunk) ELSE chunks
           /\ current_pos' = chunk_end
           /\ chunk_ends' = Append(chunk_ends, chunk_end)
    /\ UNCHANGED <<split_pc, split_text, splitFrame>>

\* The loop ends and the chunks are returned.
split_returns ==
    /\ split_pc = "loop"
    /\ current_pos >= Len(split_text)
    /\ split_pc' = "done"
    /\ UNCHANGED <<split_text, current_pos, chunks, chunk_ends, splitFrame>>

----------------------------------------------------------------------------
(* The pending queue: handle_message and process_pending_tasks              *)

\* What "await router.call(text, history)" gives process_pending_tasks: a
\* text, a text that starts with "Error:", or one of the exceptions the
\* interface of call() names and the handlers catch.
CallOutcomes == {"answer", "error_text", "RateLimitError", "LLMError"}

\* What "await send_message(...)" does: the message is sent, or the
\* request to Telegram raises.
SendOutcomes == {"sent", "raises"}

\* delete_pending_task(task_id)
DeletePendingTask(rows, task_id) == SelectSeq(rows, LAMBDA id : id # task_id)

\* handle_message, "except RateLimitError": the request is saved as a new
\* row and the user is told that it was queued.
save_pending_task ==
    /\ next_id <= MaxQueued
    /\ pending_tasks' = Append(pending_tasks, next_id)
    /\ next_id' = next_id + 1
    /\ UNCHANGED <<ppt_pc, ppt_tasks, delivered, queueFrame>>

\* process_pending_tasks up to the loop: tasks = get_pending_tasks(), the
\* return when there is none, and the first MAX_TASKS of them otherwise.
process_pending_begin ==
    /\ ppt_pc = "idle"
    /\ IF pending_tasks = <<>>
         THEN UNCHANGED <<ppt_pc, ppt_tasks>>
         ELSE /\ ppt_tasks' = SubSeq(pending_tasks, 1, Min(MAX_TASKS, Len(pending_tasks)))
              /\ ppt_pc' = "loop"
    /\ UNCHANGED <<pending_tasks, next_id, delivered, queueFrame>>

\* One pass of the loop, for the task at the head: the call of the router,
\* the reply and the deletion; "except RateLimitError" leaves the loop,
\* "except Exception" deletes the task and goes on.
process_pending_task ==
    /\ ppt_pc = "loop"
    /\ ppt_tasks # <<>>
    /\ LET task_id == Head(ppt_tasks)
       IN  \E response \in CallOutcomes, send \in SendOutcomes :
              CASE response = "RateLimitError" ->
                     /\ ppt_tasks' = <<>>
                     /\ UNCHANGED <<pending_tasks, delivered>>
                [] response = "LLMError" ->
                     /\ pending_tasks' = DeletePendingTask(pending_tasks, task_id)
                     /\ ppt_tasks' = Tail(ppt_tasks)
                     /\ UNCHANGED delivered
                [] response \in {"answer", "error_text"} ->
                     /\ delivered' = IF send = "sent" THEN delivered \cup {task_id}
                                     ELSE delivered
                     /\ pending_tasks' = DeletePendingTask(pending_tasks, task_id)
                     /\ ppt_tasks' = Tail(ppt_tasks)
    /\ ppt_pc' = IF ppt_tasks' = <<>> THEN "idle" ELSE "loop"
    /\ UNCHANGED <<next_id, queueFrame>>

----------------------------------------------------------------------------
(* handle_message: what is done with the response of the session            *)

\* router.call has come back to handle_message. A response that starts
\* with "Error:" is shown and nothing else is done. Any other response is
\* saved as the assistant's reply and sent, and when the sending did not
\* raise the message is counted as answered. RateLimitError queues the
\* request; any other exception is shown as an error.
handle_message_reply ==
    /\ pc = "done"
    /\ hm_pc = "awaiting"
    /\ hm_pc' = "returned"
    /\ IF outcome.kind = "returned"
         THEN IF StartsWith(outcome.text, "Error:")
                THEN /\ error_shown' = Some(outcome.text)
                     /\ UNCHANGED <<saved_reply, answered>>
                ELSE /\ saved_reply' = Some(outcome.text)
                     /\ \E sent \in SendOutcomes :
                           IF sent = "sent"
                             THEN /\ answered' = answered + 1
                                  /\ UNCHANGED error_shown
                             ELSE /\ error_shown' = Some(ErrorReplyText("send"))
                                  /\ UNCHANGED answered
         ELSE /\ error_shown' =
                     IF outcome.exc = "RateLimitError" THEN Nothing
                     ELSE Some(ErrorReplyText(outcome.exc))
              /\ UNCHANGED <<saved_reply, answered>>
    /\ UNCHANGED <<sessionVars, replyFrame>>

\* cmd_use, the handler of /use, run by the event loop while the session
\* is not running: before it, after it, or while it awaits acompletion
\* (the tool functions do not yield). It sets the connector's model and
\* api_base and forces lite mode.
cmd_use ==
    /\ pc \in {"idle", "await_provider", "done"}
    /\ \E model_key \in DOMAIN LLM_PRESETS : conn_model' = model_key
    /\ force_lite' = TRUE
    /\ UNCHANGED <<lock_holder, lock_waiters, tasks>>
    /\ UNCHANGED <<sessionVars, modelFrame>>

----------------------------------------------------------------------------
(* The router: the steps of LLMRouter.call                                  *)

\* router.call is entered by task t and goes on to its first await: it
\* reads force_lite and, outside lite mode, whether the primary is
\* available.
router_call_begins ==
    /\ \E t \in RouterCallers, claude_ok \in BOOLEAN, litellm_ok \in BOOLEAN :
          /\ rc[t].pc \in {"idle", "returned", "raised"}
          /\ LET call == [NoRouterCall EXCEPT !.lite = Some(force_lite)]
              IN  rc' = [rc EXCEPT ![t] =
                      IF force_lite
                        THEN IF ~litellm_ok
                               THEN [call EXCEPT !.pc = "raised",
                                         !.exc = "LLMError: LiteLLM not available"]
                               ELSE [call EXCEPT !.pc = "litellm",
                                         !.invoked = <<"litellm">>]
                        ELSE IF claude_ok
                               THEN [call EXCEPT !.pc = "claude",
                                         !.claude_ok = Some(TRUE),
                                         !.invoked = <<"claude">>]
                               ELSE Fallback([call EXCEPT !.claude_ok = Some(FALSE)],
                                             litellm_ok)]
    /\ UNCHANGED routeFrame

\* claude.call of task t ends: its text is returned under the name claude,
\* a RateLimitError is caught and the secondary connector tried, any other
\* exception leaves router.call.
router_claude_ends ==
    /\ \E t \in RouterCallers, result \in ClaudeResults, litellm_ok \in BOOLEAN :
          /\ rc[t].pc = "claude"
          /\ LET call == [rc[t] EXCEPT !.claude_result = result]
              IN  rc' = [rc EXCEPT ![t] =
                      IF result = "text"
                        THEN [call EXCEPT !.pc = "returned", !.producer = "claude",
                                  !.name = "claude"]
                        ELSE IF FallsBack(result)
                               THEN Fallback(call, litellm_ok)
                               ELSE [call EXCEPT !.pc = "raised", !.exc = result]]
    /\ UNCHANGED routeFrame

\* litellm.call of task t ends: its text is returned under the name
\* litellm, its exception leaves router.call.
router_litellm_ends ==
    /\ \E t \in RouterCallers, result \in LiteLLMResults :
          /\ rc[t].pc = "litellm"
          /\ rc' = [rc EXCEPT ![t] =
                  IF result = "text"
                    THEN [@ EXCEPT !.pc = "returned", !.producer = "litellm",
                              !.name = "litellm"]
                    ELSE [@ EXCEPT !.pc = "raised", !.exc = result]]
    /\ UNCHANGED routeFrame

----------------------------------------------------------------------------
(* The cron scheduler: _check_jobs and the tools that change the jobs       *)

\* add_scheduled_task(name, run_in_seconds=...), called in a user's session
\* or in the session of a job's callback: a new one-shot job, saved.
add_scheduled_task ==
    /\ \E id \in JobIds, name \in JobNames, delay \in {0, 1} :
          /\ runs[id] = 0
          /\ id \notin JobIdsOf(jobs) \cup JobIdsOf(jobs_file)
          /\ jobs' = Append(jobs, CronJob(id, name, clock + delay))
          /\ jobs_file' = jobs'
    /\ UNCHANGED <<clock, check_pc, check_now, check_todo, runs, cronFrame>>

\* remove_scheduled_task(job_id), called likewise.
remove_scheduled_task ==
    /\ \E job_id \in JobIds \cup JobNames :
          /\ RemoveSaves(jobs, job_id)
          /\ jobs' = RemoveJob(jobs, job_id)
          /\ jobs_file' = jobs'
    /\ UNCHANGED <<clock, check_pc, check_now, check_todo, runs, cronFrame>>

\* Time passes.
clock_ticks ==
    /\ clock < MaxClock
    /\ clock' = clock + 1
    /\ UNCHANGED <<jobs, jobs_file, check_pc, check_now, check_todo, runs, cronFrame>>

\* _run_loop wakes and _check_jobs begins: now, and the list of the jobs.
check_jobs_begin ==
    /\ check_pc = "idle"
    /\ jobs # <<>>
    /\ check_now' = clock
    /\ check_todo' = jobs
    /\ check_pc' = "loop"
    /\ UNCHANGED <<jobs, jobs_file, clock, runs, cronFrame>>

\* One pass of the loop up to the callback: a job that is not due is
\* passed over, the callback of a due job is invoked and awaited. After the
\* last job _check_jobs returns.
check_jobs_next ==
    /\ check_pc = "loop"
    /\ IF check_todo = <<>>
         THEN /\ check_pc' = "idle"
              /\ UNCHANGED <<check_todo, runs>>
         ELSE LET job == Head(check_todo)
              IN  IF check_now >= job.next_run
                    THEN /\ runs[job.id] < MaxRuns
                         /\ runs' = [runs EXCEPT ![job.id] = @ + 1]
                         /\ check_pc' = "callback"
                         /\ UNCHANGED check_todo
                    ELSE /\ check_todo' = Tail(check_todo)
                         /\ UNCHANGED <<check_pc, runs>>
    /\ UNCHANGED <<jobs, jobs_file, clock, check_now, cronFrame>>

\* The callback returns or raises an Exception, which is logged: the
\* one-shot job is removed and the jobs are saved.
callback_ends ==
    /\ check_pc = "callback"
    /\ jobs' = RemoveJob(jobs, Head(check_todo).id)
    /\ jobs_file' = jobs'
    /\ check_todo' = Tail(check_todo)
    /\ check_pc' = "loop"
    /\ UNCHANGED <<clock, check_now, runs, cronFrame>>

\* The service is restarted: by systemd, by the operator, or by
\* restart_self called in a session, that of a job's callback included.
\* The new process loads the jobs from cron_jobs.json.
service_restarts ==
    /\ jobs' = jobs_file
    /\ check_pc' = "idle"
    /\ check_todo' = <<>>
    /\ check_now' = 0
    /\ UNCHANGED <<jobs_file, clock, runs, cronFrame>>

----------------------------------------------------------------------------
(* The tool functions: execute_bash and the waits of the catalog            *)

\* A tool function returns text without having started to wait.
ReturnsAtOnce(inv, text) ==
    /\ tool_inv' = inv
    /\ tool_result' = Some(text)
    /\ tool_pc' = "idle"
    /\ procs' = <<>>

\* A tool function starts its first wait.
StartsWaiting(inv, started) ==
    /\ tool_inv' = [inv EXCEPT !.step = 1]
    /\ tool_result' = Nothing
    /\ tool_pc' = "waiting"
    /\ procs' = started

\* The wait the invocation in progress is in.
CurrentWait == WaitsOf(tool_inv.name, tool_inv.timeout)[tool_inv.step]

\* execute_bash(command, timeout) up to the start of its subprocess: the
\* emptiness test, the truncation of the command, the denylist, the cap of
\* the timeout.
execute_bash_begin ==
    /\ tool_pc = "idle"
    /\ \E pad \in BashPads, body \in BashBodies, timeout \in BashTimeouts :
          LET typed == Blanks(pad) \o body
              command == SanitizeString(typed, BASH_COMMAND_MAX)
              inv == Invocation("execute_bash", typed, timeout, <<>>, Nothing)
          IN  /\ timeout = BASH_DEFAULT_TIMEOUT \/ (pad = 0 /\ body = <<"echo hi">>)
              /\ IF Strip(typed) = <<>>
                   THEN ReturnsAtOnce(inv, EmptyCommandText)
                 ELSE IF IsDangerousCommand(command)
                   THEN ReturnsAtOnce(inv, CommandBlockedText)
                 ELSE StartsWaiting(inv, <<command>>)
    /\ UNCHANGED <<fs, dirs, fs_log>>
    /\ UNCHANGED nonToolVars

\* Any other tool function of the catalog, up to its first wait on a
\* subprocess or a network peer (its return, if it has none).
tool_begin ==
    /\ tool_pc = "idle"
    /\ \E name \in TOOL_MAP \ {"execute_bash", "write_file"} :
          LET inv == Invocation(name, <<>>, BASH_DEFAULT_TIMEOUT, <<>>, Nothing)
          IN  IF WaitsOf(name, inv.timeout) = <<>>
                THEN ReturnsAtOnce(inv, <<"output">>)
                ELSE StartsWaiting(inv, <<<<name>>>>)
    /\ UNCHANGED <<fs, dirs, fs_log>>
    /\ UNCHANGED nonToolVars

\* The tool function goes on after a wait: to its next wait, or to its
\* return with the text given.
GoesOn(text) ==
    IF tool_inv.step < Len(WaitsOf(tool_inv.name, tool_inv.timeout))
      THEN /\ tool_inv' = [tool_inv EXCEPT !.step = tool_inv.step + 1]
           /\ UNCHANGED <<tool_pc, tool_result>>
      ELSE /\ tool_result' = Some(text)
           /\ tool_pc' = "idle"
           /\ UNCHANGED tool_inv

\* The subprocess or peer the tool function waits on answers.
tool_peer_responds ==
    /\ tool_pc = "waiting"
    /\ GoesOn(<<"output">>)
    /\ UNCHANGED <<fs, dirs, procs, fs_log>>
    /\ UNCHANGED nonToolVars

\* The timeout of the wait in progress fires: the tool function returns its
\* timeout text, or goes on where it handles the timeout itself.
tool_timeout_fires ==
    /\ tool_pc = "waiting"
    /\ CurrentWait.timeout # Nothing
    /\ IF CurrentWait.on_timeout = "return"
         THEN /\ tool_result' = Some(TimeoutText(tool_inv.name, CurrentWait.timeout[1]))
              /\ tool_pc' = "idle"
              /\ UNCHANGED tool_inv
         ELSE GoesOn(<<"output">>)
    /\ UNCHANGED <<fs, dirs, procs, fs_log>>
    /\ UNCHANGED nonToolVars

----------------------------------------------------------------------------
(* The tool functions: write_file                                           *)

\* write_file returns an error text before it touched the filesystem.
Rejects(inv, text) ==
    /\ tool_inv' = inv
    /\ tool_result' = Some(text)
    /\ tool_pc' = "idle"
    /\ fs_log' = <<>>
    /\ UNCHANGED <<fs, dirs>>

FsOp(op, path, content) == [op |-> op, path |-> path, content |-> content]

\* Where write_file goes after p.parent.mkdir: to the backup of an existing
\* file, or straight to the write.
AfterMkdirNoBackup(exists) == "write"

AfterMkdir(exists) == IF exists THEN "backup" ELSE "write"

\* write_file(path, content) up to p.parent.mkdir: the tests of the
\* arguments, the resolution of the path, the protection test, the parent
\* directories.
write_file_begin ==
    /\ tool_pc = "idle"
    /\ \E path \in WritePaths, content \in WriteContents :
          LET inv == Invocation("write_file", <<>>, BASH_DEFAULT_TIMEOUT, path, content)
              p == Resolve(path)
          IN  IF Strip(path) = <<>>
                THEN Rejects(inv, EmptyPathText)
              ELSE IF content = Nothing
                THEN Rejects(inv, ContentNoneText)
              ELSE IF content[1].size > MAX_WRITE_SIZE
                THEN Rejects(inv, ContentTooLargeText(content[1].size))
              ELSE IF IsProtectedPath(p)
                THEN Rejects([inv EXCEPT !.p = p], ProtectedText(path))
              ELSE \/ Rejects([inv EXCEPT !.p = p], IOErrorText)
                   \/ /\ dirs' = dirs \cup Parents(p)
                      /\ fs_log' = <<FsOp("mkdir", p, Nothing)>>
                      /\ tool_inv' = [inv EXCEPT !.p = p, !.original = fs[p]]
                      /\ tool_result' = Nothing
                      /\ tool_pc' = AfterMkdir(fs[p] # Nothing)
                      /\ UNCHANGED fs
    /\ UNCHANGED procs
    /\ UNCHANGED nonToolVars

\* shutil.copy2(p, backup_path): the copy, or the error text when it fails.
write_file_backup ==
    /\ tool_pc = "backup"
    /\ \E io_ok \in BOOLEAN :
          IF io_ok
            THEN /\ fs' = [fs EXCEPT ![BackupPath(tool_inv.p)] = fs[tool_inv.p]]
                 /\ fs_log' = Append(fs_log,
                        FsOp("copy", BackupPath(tool_inv.p), fs[tool_inv.p]))
                 /\ tool_pc' = "write"
                 /\ UNCHANGED tool_result
            ELSE /\ tool_result' = Some(IOErrorText)
                 /\ tool_pc' = "idle"
                 /\ UNCHANGED <<fs, fs_log>>
    /\ UNCHANGED <<tool_inv, dirs, procs>>
    /\ UNCHANGED nonToolVars

\* p.write_text(content): the write, or the error text when it fails, before
\* the file was opened or after the open truncated it.
write_file_write ==
    /\ tool_pc = "write"
    /\ \E io \in {"ok", "fails", "truncates"} :
          LET content == tool_inv.content[1]
          IN  CASE io = "ok" ->
                     /\ fs' = [fs EXCEPT ![tool_inv.p] = Some(content.text)]
                     /\ fs_log' = Append(fs_log,
                            FsOp("write", tool_inv.p, Some(content.text)))
                     /\ tool_result' = Some(WroteText(content.size, tool_inv.path))
                [] io = "fails" ->
                     /\ tool_result' = Some(IOErrorText)
                     /\ UNCHANGED <<fs, fs_log>>
                [] io = "truncates" ->
                     /\ fs' = [fs EXCEPT ![tool_inv.p] = Some("")]
                     /\ fs_log' = Append(fs_log, FsOp("write", tool_inv.p, Some("")))
                     /\ tool_result' = Some(IOErrorText)
    /\ tool_pc' = "idle"
    /\ UNCHANGED <<tool_inv, dirs, procs>>
    /\ UNCHANGED nonToolVars

----------------------------------------------------------------------------
(* The tool functions: restore_from_backup                                  *)

\* A copy in the other direction, from the file to its backup.
RestoredFilesReversed(files, p, backup) == [files EXCEPT ![backup] = files[p]]

\* The files after shutil.copy2(backup, p).
RestoredFiles(files, p, backup) == [files EXCEPT ![p] = files[backup]]

\* restore_from_backup(file_path): the test of the argument, the resolution
\* of the path, the test that the backup exists, and shutil.copy2(backup, p),
\* which copies or fails with an error text.
restore_from_backup ==
    /\ tool_pc = "idle"
    /\ \E file_path \in RestorePaths :
          LET inv == Invocation("restore_from_backup", <<>>, BASH_DEFAULT_TIMEOUT,
                                file_path, Nothing)
              p == Resolve(file_path)
              backup == BackupPath(p)
          IN  IF file_path = <<>>
                THEN Rejects(inv, FilePathRequiredText)
              ELSE IF fs[backup] = Nothing
                THEN Rejects([inv EXCEPT !.p = p], NoBackupText(backup))
              ELSE \/ Rejects([inv EXCEPT !.p = p], IOErrorText)
                   \/ /\ fs' = RestoredFiles(fs, p, backup)
                      /\ fs_log' = <<FsOp("copy", p, fs[backup])>>
                      /\ tool_inv' = [inv EXCEPT !.p = p, !.original = fs[p]]
                      /\ tool_result' = Some(RestoredText(file_path))
                      /\ tool_pc' = "idle"
                      /\ UNCHANGED dirs
    /\ UNCHANGED procs
    /\ UNCHANGED nonToolVars

\* A file with the name of a backup comes to exist beside a file: the copy
\* write_file made of an earlier version, the operator's, or that of a shell
\* command given to execute_bash (its denylist lets cp and redirections
\* through).
backup_made ==
    /\ tool_pc = "idle"
    /\ \E f \in DOMAIN fs :
          /\ fs[f] # Nothing
          /\ BackupPath(f) \in DOMAIN fs
          /\ fs[BackupPath(f)] = Nothing
          /\ fs' = [fs EXCEPT ![BackupPath(f)] = Some("earlier")]
    /\ UNCHANGED <<tool_pc, tool_inv, tool_result, dirs, procs, fs_log>>
    /\ UNCHANGED nonToolVars

----------------------------------------------------------------------------
(* Specifications                                                           *)

\* One session of the agent loop.
Next ==
    \/ call_start
    \/ provider_returns_final
    \/ provider_returns_tool_calls
    \/ provider_raises
    \/ tool_call_limit_reached
    \/ tool_call_loop_detected
    \/ tool_call_dispatched
    \/ tool_call_format_raises

Spec == Init /\ [][Next]_vars

\* The same, where the provider call and the tool dispatch in progress
\* always come back (each carries a timeout).
FairSpec == Spec /\ WF_vars(Next)

\* One session, with callers of the tracker running beside it.
TrackedNext ==
    \/ Next
    \/ tracker_record
    \/ tracker_clear

TrackedSpec == Init /\ [][TrackedNext]_vars

\* Tool functions called one after the other: execute_bash and the tools
\* that wait on a subprocess or a network peer.
ToolNext ==
    \/ execute_bash_begin
    \/ tool_begin
    \/ tool_peer_responds
    \/ tool_timeout_fires

ToolSpec == Init /\ [][ToolNext]_vars

\* The same, where a timeout that was passed to a wait fires unless the wait
\* ends before; the subprocess or peer itself may stay silent for ever.
ToolFairSpec == ToolSpec /\ WF_vars(tool_timeout_fires)

\* The rate-limit tracker and its callers, as time passes.
LimitNext ==
    \/ limit_recorded
    \/ limit_checked
    \/ limit_cleared
    \/ time_passes

LimitSpec == Init /\ [][LimitNext]_vars

\* The same tracker in a process that is restarted now and then, between
\* two operations.
RestartNext ==
    \/ LimitNext
    \/ process_restarts

RestartSpec == Init /\ [][RestartNext]_vars

\* Two processes that call the tracker, their steps interleaved.
StoreNext ==
    \/ worker_calls
    \/ worker_opens
    \/ worker_writes

StoreSpec == Init /\ [][StoreNext]_vars

\* The same, where a process may die at any point.
CrashNext ==
    \/ StoreNext
    \/ worker_dies

CrashSpec == Init /\ [][CrashNext]_vars

\* The tasks of the event loop around the lock of the primary provider.
LockNext ==
    \/ handle_message
    \/ process_pending_tasks
    \/ send_heartbeat
    \/ run_cron_job
    \/ fallback_sent
    \/ lock_granted
    \/ claude_returns
    \/ litellm_returns
    \/ toggle_lite_mode

LockSpec == Init /\ [][LockNext]_vars

\* The event loop runs every task that can go on: a provider call in
\* progress ends (the CLI has a timeout, the secondary's requests have
\* one), a released lock is handed to its first waiter, a canned text is
\* sent.
LockFairSpec ==
    /\ LockSpec
    /\ \A t \in Tasks :
          /\ WF_vars(claude_returns /\ tasks[t].pc = "claude_execute"
                                    /\ tasks'[t].pc # "claude_execute")
          /\ WF_vars(litellm_returns /\ tasks[t].pc = "litellm_call"
                                     /\ tasks'[t].pc # "litellm_call")
    /\ WF_vars(lock_granted)
    /\ WF_vars(fallback_sent)

\* The splitter of message delivery, called with one text after another.
SplitNext ==
    \/ split_begin
    \/ split_loop
    \/ split_returns

SplitSpec == Init /\ [][SplitNext]_vars

\* Requests queued by handle_message and retried on the heartbeat.
QueueNext ==
    \/ save_pending_task
    \/ process_pending_begin
    \/ process_pending_task

QueueSpec == Init /\ [][QueueNext]_vars

\* One message of a user: the session and what handle_message does with
\* its response.
ReplyNext ==
    \/ Next
    \/ handle_message_reply

ReplySpec == Init /\ [][ReplyNext]_vars

\* write_file and restore_from_backup called one after the other.
RoundTripNext ==
    \/ write_file_begin
    \/ write_file_backup
    \/ write_file_write
    \/ restore_from_backup

RoundTripSpec == Init /\ [][RoundTripNext]_vars

\* Router calls one after the other, and the mode switched beside them.
RouteNext ==
    \/ router_call_begins
    \/ router_claude_ends
    \/ router_litellm_ends
    \/ toggle_lite_mode

RouteSpec == Init /\ [][RouteNext]_vars

\* One session, and the operator switching the model beside it.
ModelNext ==
    \/ Next
    \/ cmd_use

ModelSpec == Init /\ [][ModelNext]_vars

\* The scheduler, the tools that add and remove jobs, and restarts of the
\* service.
CronNext ==
    \/ add_scheduled_task
    \/ remove_scheduled_task
    \/ clock_ticks
    \/ check_jobs_begin
    \/ check_jobs_next
    \/ callback_ends
    \/ service_restarts

CronSpec == Init /\ [][CronNext]_vars

\* write_file called again and again.
FileNext ==
    \/ write_file_begin
    \/ write_file_backup
    \/ write_file_write

FileSpec == Init /\ [][FileNext]_vars

\* restore_from_backup called again and again, on a filesystem where
\* backups have been left.
BackupNext ==
    \/ restore_from_backup
    \/ backup_made

BackupSpec == Init /\ [][BackupNext]_vars

----------------------------------------------------------------------------
(* Helpers of the claims                                                    *)

\* The requests of the history that were dispatched to the registry.
Executed == SelectSeq(req_log, LAMBDA r : r.fate = "dispatched")

\* The requests of the history that loop detection skipped.
Skipped == SelectSeq(req_log, LAMBDA r : r.fate = "skipped")

Last(seq) == seq[Len(seq)]

----------------------------------------------------------------------------
(* C1 - call() never raises to its caller                                   *)

----------------------------------------------------------------------------
(* C2 - the turn budget                                                     *)

----------------------------------------------------------------------------
(* C3 - the tool-call budget                                                *)

\* C3 as stated: a session that receives 51 tool-call requests ends with
\* the "too many tool calls" text after exactly 50 tool executions, and the
\* 51st request is not executed.
C3_ExactlyFiftyExecutions ==
    outcome = Returned(TooManyToolCallsText) =>
        /\ Len(Executed) = MAX_TOOL_CALLS
        /\ Last(req_log).fate = "refused"

\* C3 as amended: the session ends with the "too many tool calls" text
\* exactly when its 51st request arrives; that request is not executed, and
\* the executions before it number 50 less the requests loop detection
\* skipped (50 when it skipped none); no session executes more than 50.
C3_ToolCallBudget ==
    /\ Len(Executed) <= MAX_TOOL_CALLS
    /\ Len(Executed) + Len(Skipped) <= MAX_TOOL_CALLS
    /\ (Len(req_log) > MAX_TOOL_CALLS =>
            /\ pc = "done"
            /\ outcome = Returned(TooManyToolCallsText))
    /\ (outcome = Returned(TooManyToolCallsText) =>
            /\ Len(req_log) = MAX_TOOL_CALLS + 1
            /\ Last(req_log).fate = "refused"
            /\ Len(Executed) = MAX_TOOL_CALLS - Len(Skipped)
            /\ \A i \in 1..MAX_TOOL_CALLS : req_log[i].fate # "refused")

\* 51 requests none of which loop detection skipped: 50 executions, then
\* the refusal.
C3_Witness ==
    /\ outcome = Returned(TooManyToolCallsText)
    /\ Len(Executed) = MAX_TOOL_CALLS
    /\ Len(Skipped) = 0

----------------------------------------------------------------------------
(* C4 - loop detection                                                      *)

\* The step processes one more request, within the tool-call budget, whose
\* two predecessors carry its name and were both executed.
C4_ThirdIdentical ==
    /\ Len(req_log') = Len(req_log) + 1
    /\ Len(req_log) >= MAX_REPEAT - 1
    /\ Len(req_log) < MAX_TOOL_CALLS
    /\ \A k \in 1..(MAX_REPEAT - 1) :
          /\ req_log[Len(req_log) + 1 - k].fate = "dispatched"
          /\ req_log[Len(req_log) + 1 - k].name = Last(req_log').name

----------------------------------------------------------------------------
(* C5 - tool calls of a turn run in the order received, one at a time       *)

\* The assistant messages that requested tools, in order: the (t+1)-th is
\* the response of turn t.
ToolResponses ==
    SelectSeq(messages, LAMBDA m : m.role = "assistant" /\ m.tool_calls # <<>>)

\* C5: the requests processed in a turn are, in order, an initial part of
\* the tool calls of that turn's response; requests are processed turn after
\* turn; and when a request starts, the result of every executed request
\* before it is already in the message list, right where that request
\* left it.
C5_InOrderOneAtATime ==
    /\ \A r \in 1..Len(req_log) : req_log[r].turn + 1 <= Len(ToolResponses)
    /\ \A t \in 0..(Len(ToolResponses) - 1) :
          LET reqs == SelectSeq(req_log, LAMBDA r : r.turn = t)
              calls == ToolResponses[t + 1].tool_calls
          IN  /\ Len(reqs) <= Len(calls)
              /\ \A j \in 1..Len(reqs) :
                    /\ reqs[j].id = calls[j].id
                    /\ reqs[j].name = calls[j].name
    /\ \A j \in 1..(Len(req_log) - 1) :
          /\ req_log[j].turn <= req_log[j + 1].turn
          /\ req_log[j].msgs < req_log[j + 1].msgs
          /\ req_log[j].fate = "dispatched" =>
                /\ messages[req_log[j].msgs + 1].role = "tool"
                /\ messages[req_log[j].msgs + 1].tool_call_id = req_log[j].id

\* A turn with four tool calls, all processed.
C5_Witness ==
    \E j \in 1..(Len(req_log) - 3) :
        /\ req_log[j].turn = req_log[j + 3].turn
        /\ req_log[j + 3].fate = "dispatched"
        /\ Last(messages).role = "tool"
        /\ Last(messages).tool_call_id = req_log[j + 3].id

----------------------------------------------------------------------------
(* C6 - every tool message answers a call of the preceding assistant        *)
(* message                                                                  *)

\* The position of the last assistant message before position i (0: none).
PrecedingAssistant(i) ==
    LET P == {j \in 1..(i - 1) : messages[j].role = "assistant"}
    IN  IF P = {} THEN 0 ELSE CHOOSE j \in P : \A k \in P : k <= j

\* C6: in every state of the message list, every tool-role message's
\* tool_call_id is the id of a tool call of the nearest assistant message
\* before it, also when the corrective user-role message of loop detection
\* stands between the two.
C6_ToolMessagesAnswerPrecedingAssistant ==
    \A i \in 1..Len(messages) :
        messages[i].role = "tool" =>
            LET a == PrecedingAssistant(i)
            IN  /\ a > 0
                /\ \E k \in 1..Len(messages[a].tool_calls) :
                      messages[a].tool_calls[k].id = messages[i].tool_call_id

\* A tool message that directly follows the corrective user message.
C6_Witness ==
    \E i \in 2..Len(messages) :
        /\ messages[i].role = "tool"
        /\ messages[i - 1].role = "user"
        /\ messages[i - 1].content = StopText

----------------------------------------------------------------------------
(* C7 - short-limit auto-retry                                              *)

Throttled(n) == [class |-> "RateLimitError", text |-> RetryIn(n)]

\* The persisted record of a provider, if any.
PersistedLimits == LoadLimits(limits_data, limits_file)

\* C7: when the provider call of the first turn fails with a throttling
\* error carrying "retry in 5s", the tracker holds a short record for the
\* provider, and the session does not end on that failure: it ends only
\* after a second provider call, and, that call succeeding, with the final
\* answer rather than an error text.
C7_ShortLimitAutoRetry ==
    (turn = 0 /\ last_exc = Throttled(5)) =>
        /\ provider_calls = 1 =>
              /\ pc # "done"
              /\ "litellm" \in DOMAIN PersistedLimits
              /\ PersistedLimits["litellm"].limit_type = "short"
        /\ pc = "done" =>
              /\ provider_calls >= 2
              /\ outcome.kind = "returned"
              /\ outcome.text # ErrorConnectingText("RateLimitError")

----------------------------------------------------------------------------
(* C8 - which failures cross the boundary as RateLimitError                 *)

\* The throttling error is a long limit: its hint parses to more than the
\* short threshold, or to nothing.
IsLongLimit(e) ==
    /\ e.class = "RateLimitError"
    /\ LimitRecord(e.text, now).limit_type \in {"long", "unknown"}

\* C8: a session that ended on a provider throttling error that is a long
\* limit ended by raising RateLimitError to its caller; a session that ended
\* on any other provider or tool failure ended with a returned text.
C8_LongLimitRaisesRateLimitError ==
    pc = "done" =>
        /\ IsLongLimit(last_exc) => outcome = Raised("RateLimitError")
        /\ last_exc.class \in {"Timeout", "AttributeError"} =>
              outcome.kind = "returned"

----------------------------------------------------------------------------
(* C9 - the rate-limit record is cleared on the clean final response        *)

\* C9: the step in which a provider call returns a clean final response
\* leaves the provider without a rate-limit record, and the step in which a
\* response carrying tool calls arrives leaves the provider's record as it
\* was.
C9_ClearedOnFinalResponseOnly ==
    [][/\ (pc = "await_provider" /\ pc' = "done" /\ last_exc' = last_exc) =>
              "litellm" \notin DOMAIN PersistedLimits'
       /\ (pc = "await_provider" /\ pc' = "tools") =>
              PersistedLimits' = PersistedLimits]_vars

----------------------------------------------------------------------------
(* C10 - the tool-usage footer                                              *)

\* The executed requests that are not cosmetic show_face calls.
NonCosmetic == SelectSeq(Executed, LAMBDA r : r.name # "show_face")

\* The session ended on a final response of the provider.
EndedWithFinalAnswer ==
    /\ pc = "done"
    /\ outcome.kind = "returned"
    /\ messages # <<>>
    /\ Last(messages).role = "assistant"
    /\ Last(messages).tool_calls = <<>>

\* C10: the text of a session that ended on a final response is the
\* provider's final text (the empty text for no content) followed by the
\* footer. With no executed tool call it is the final text alone; the footer
\* is absent exactly when no non-cosmetic call was executed; otherwise it
\* shows the number of non-cosmetic calls and no show_face line, and with
\* exactly one non-cosmetic call it has exactly one action line, that
\* call's.
C10_ToolFooter ==
    EndedWithFinalAnswer =>
        LET content == Last(messages).content
            own == IF content = None THEN <<>> ELSE <<<<content>>>>
            text == outcome.text
            footer == SubSeq(text, Len(own) + 1, Len(text))
            n == Len(NonCosmetic)
        IN  /\ Len(text) >= Len(own)
            /\ SubSeq(text, 1, Len(own)) = own
            /\ Len(Executed) = 0 => text = own
            /\ n = 0 <=> footer = <<>>
            /\ n >= 1 =>
                  /\ footer[1] = <<"FENCE">>
                  /\ footer[2] = <<"Tool usage", n>>
                  /\ Last(footer) = <<"FENCE">>
                  /\ \A l \in 3..(Len(footer) - 1) :
                        footer[l][1] = "  " =>
                            footer[l][2] # ToolIcon("show_face")
            /\ n = 1 =>
                  /\ Len(footer) = 4
                  /\ footer[3] = <<"  ">> \o
                        FormatToolAction(NonCosmetic[1].name,
                                         ParseArgs(NonCosmetic[1].raw_args),
                                         NonCosmetic[1].result)
                  /\ footer[3][2] = ToolIcon(NonCosmetic[1].name)

\* A session that executed one show_face call and one other tool call, and
\* ended on a final response.
C10_Witness ==
    /\ EndedWithFinalAnswer
    /\ Len(Executed) = 2
    /\ Len(NonCosmetic) = 1

----------------------------------------------------------------------------
(* C11 - malformed tool arguments never abort the session                   *)

\* The payload shapes that are malformed or mismatched: everything but an
\* object whose fields fit the tool's signature.
MalformedArgs == {"invalid_json", "non_object", "empty_object", "object_wrong_types"}

\* C11: every request carrying malformed or mismatched arguments that
\* reached the dispatcher has a textual result, a tool message for its call
\* is in the message list right after the messages that were there when it
\* started, and the session did not end on it with the text of the outer
\* except clause.
C11_MalformedArgsNeverAbort ==
    \A i \in 1..Len(req_log) :
        (req_log[i].raw_args \in MalformedArgs /\ req_log[i].fate = "dispatched") =>
            /\ req_log[i].result.kind \in {"ok", "Error: Invalid arguments",
                                           "Error executing", "Unknown tool"}
            /\ Len(messages) > req_log[i].msgs
            /\ messages[req_log[i].msgs + 1].role = "tool"
            /\ messages[req_log[i].msgs + 1].tool_call_id = req_log[i].id
            /\ ~(i = Len(req_log) /\ last_exc.class = "AttributeError")

----------------------------------------------------------------------------
(* C12 - a tool name outside the registry                                   *)

\* The step processes a request, within the tool-call budget and not the
\* third of its name in a row, whose name is not in the registry.
C12_UnknownNameStep ==
    /\ Len(req_log') = Len(req_log) + 1
    /\ Last(req_log').name \notin TOOL_MAP
    /\ Last(req_log').fate = "dispatched"

----------------------------------------------------------------------------
(* C13 - every tool dispatch returns                                        *)

\* C13: every wait of every tool function of the catalog carries a timeout
\* (for execute_bash the smaller of the requested timeout and the absolute
\* maximum), so that a tool function that waits on a subprocess or peer that
\* never answers still returns a text.
C13_EveryDispatchReturns ==
    /\ [](tool_pc = "waiting" =>
            /\ CurrentWait.timeout # Nothing
            /\ tool_inv.name = "execute_bash" =>
                  CurrentWait.timeout = Some(Min(tool_inv.timeout, BASH_MAX_TIMEOUT)))
    /\ (tool_pc = "waiting") ~> (tool_pc = "idle" /\ tool_result # Nothing)

----------------------------------------------------------------------------
(* C14 - the command denylist                                               *)

\* C14: whenever execute_bash was called with a command that matches one of
\* the destructive patterns, it has returned the rejection text and started
\* no subprocess.
C14_DenylistRejects ==
    (tool_inv.name = "execute_bash" /\ IsDangerousCommand(tool_inv.command)) =>
        /\ procs = <<>>
        /\ tool_pc = "idle"
        /\ tool_result = Some(CommandBlockedText)

----------------------------------------------------------------------------
(* C15 - a write to a protected path leaves the filesystem alone            *)

\* The path names a file, and the file it leads to (relative to the project
\* directory, links followed) has a protected entry in its path.
TargetsProtected(path) ==
    /\ Strip(path) # <<>>
    /\ \E protected \in PROTECTED_FILES : Contains(Resolve(path), protected)

\* C15: a call of write_file whose path targets a protected path changes no
\* file and creates no directory, whatever its content argument is (None, too
\* large or acceptable): it performs no filesystem operation at all and
\* returns an error text, the protected-path text when the content is
\* acceptable.
C15_ProtectedWriteRejected ==
    /\ []((tool_inv.name = "write_file" /\ TargetsProtected(tool_inv.path)) =>
            /\ tool_pc = "idle"
            /\ fs_log = <<>>
            /\ tool_result \in {Some(ContentNoneText),
                                Some(ContentTooLargeText(MAX_WRITE_SIZE + 1)),
                                Some(ProtectedText(tool_inv.path))}
            /\ (tool_inv.content # Nothing /\ tool_inv.content[1].size <= MAX_WRITE_SIZE) =>
                  tool_result = Some(ProtectedText(tool_inv.path)))
    /\ [][(tool_inv'.name = "write_file" /\ TargetsProtected(tool_inv'.path)) =>
              /\ fs' = fs
              /\ dirs' = dirs]_vars

\* After an accepted write elsewhere, a write with acceptable content below
\* a protected directory was rejected, and the parent directory it names
\* does not exist.
C15_Witness ==
    /\ tool_inv.path = <<"src/", "drivers/", "fresh/", "epd", ".py">>
    /\ tool_inv.content = Content("v1", 2)
    /\ tool_result = Some(ProtectedText(tool_inv.path))
    /\ ProjectDir \o <<"src/", "drivers/", "fresh/">> \notin dirs
    /\ fs[ProjectDir \o <<"notes", ".txt">>] = Some("v2")

----------------------------------------------------------------------------
(* C16 - backup before overwrite                                            *)

\* The positions of the copies in the operations of the invocation.
C16_Copies == {i \in 1..Len(fs_log) : fs_log[i].op = "copy"}

\* The step is the write of an invocation that found its file existing.
C16_OverwriteLands ==
    /\ tool_pc = "write"
    /\ Len(fs_log') = Len(fs_log) + 1
    /\ tool_inv.original # Nothing

\* C16: when write_file writes to a file that existed when the call was
\* accepted, the file still has its original content, exactly one copy has
\* been made in this call, to the sibling path "<name>.bak", and that backup
\* holds the original content before and after the write; the write changes
\* no other file, and the copy changed no file but the backup.
C16_BackupBeforeOverwrite ==
    /\ [][C16_OverwriteLands =>
            /\ fs[tool_inv.p] = tool_inv.original
            /\ Cardinality(C16_Copies) = 1
            /\ \A i \in C16_Copies :
                  /\ fs_log[i].path = BackupPath(tool_inv.p)
                  /\ fs_log[i].content = tool_inv.original
            /\ fs[BackupPath(tool_inv.p)] = tool_inv.original
            /\ fs'[BackupPath(tool_inv.p)] = tool_inv.original
            /\ Last(fs_log').op = "write"
            /\ \A f \in FilePaths \ {tool_inv.p} : fs'[f] = fs[f]]_vars
    /\ [][tool_pc = "backup" =>
            \A f \in FilePaths \ {BackupPath(tool_inv.p)} : fs'[f] = fs[f]]_vars
    /\ [](tool_pc = "write" /\ tool_inv.original = Nothing => C16_Copies = {})

\* The second overwrite of a file has landed: the file holds the newest
\* content and the one backup holds the content of the first overwrite.
C16_Witness ==
    /\ tool_pc = "idle"
    /\ tool_result = Some(WroteText(MAX_WRITE_SIZE, <<"notes", ".txt">>))
    /\ fs[ProjectDir \o <<"notes", ".txt">>] = Some("v2")
    /\ fs[ProjectDir \o <<"notes", ".txt", ".bak">>] = Some("v1")
    /\ Len(fs_log) = 3

----------------------------------------------------------------------------
(* C17 - the window of a parsed "retry in Ns" limit                         *)

\* The providers that have a record, and the error text a record was made
\* from.
Limited == DOMAIN PersistedLimits

TextOf(record) ==
    IF record.error_preview = Nothing THEN EmptyText ELSE record.error_preview[1]

\* C17: for every provider whose record was made from a text with a
\* "retry in Ns" hint, reset_at is the recording time plus N, the remaining
\* time reported at the recording time is N, and is_limited reports true at
\* every time before reset_at and false from reset_at on; a provider without
\* record (never recorded, or its expired record cleared) is not limited.
C17_RetryInWindow ==
    /\ \A p \in Limited :
          LET r == PersistedLimits[p]
          IN  TextOf(r).form = "retry in Ns" =>
                /\ r.retry_seconds = Some(TextOf(r).n)
                /\ r.reset_at = r.last_hit + TextOf(r).n
                /\ now >= r.last_hit
                /\ now = r.last_hit => GetRetryAfter(p) = Some(TextOf(r).n)
                /\ now < r.reset_at => IsLimited(p)
                /\ now >= r.reset_at => ~IsLimited(p)
    /\ \A p \in TrackedProviders \ Limited : ~IsLimited(p)

\* The time is the reset time of a "retry in 5s" record: is_limited reports
\* false for its provider, and true for the other provider, whose record
\* was made a second before.
C17_Witness ==
    /\ Limited = TrackedProviders
    /\ \E p \in Limited :
          /\ TextOf(PersistedLimits[p]) = RetryIn(5)
          /\ now = PersistedLimits[p].reset_at
          /\ ~IsLimited(p)
          /\ \A q \in Limited \ {p} :
                /\ PersistedLimits[q].last_hit = now - 1
                /\ IsLimited(q)

----------------------------------------------------------------------------
(* C18 - the fallback window of a text without hint                         *)

\* C18: every record made from a text that carries no retry hint, the empty
\* text included, has no retry_seconds, is tagged unknown, and its reset_at
\* is the recording time plus the fallback window, strictly after the
\* recording time; at the recording time the provider is reported limited.
C18_FallbackWindow ==
    \A p \in Limited :
        LET r == PersistedLimits[p]
        IN  TextOf(r).form \in {"no hint", "empty"} =>
              /\ r.retry_seconds = Nothing
              /\ r.limit_type = "unknown"
              /\ r.reset_at = r.last_hit + FALLBACK_SECONDS
              /\ r.reset_at > r.last_hit
              /\ now = r.last_hit => IsLimited(p)

\* The empty text has just been recorded for a provider, at a time after 0,
\* and the provider is reported limited.
C18_Witness ==
    \E p \in Limited :
        /\ PersistedLimits[p].error_preview = Nothing
        /\ PersistedLimits[p].last_hit = now
        /\ now > 0
        /\ IsLimited(p)

----------------------------------------------------------------------------
(* C19 - the meaning of each documented hint form                           *)

\* The delay each documented form of hint stands for, at the time given.
C19_Meaning(text, utcnow) ==
    CASE text.form \in {"no hint", "empty"} -> Nothing
      [] text.form = "retry after ISO" ->
           Some(IF text.at - utcnow > 0 THEN text.at - utcnow ELSE 0)
      [] OTHER -> Some(text.n)

\* C19: the retry_seconds of every record is the delay its text's form
\* stands for: the stated number of seconds for the relative forms, and for
\* the absolute form "retry after <timestamp>" the time from the recording
\* to the timestamp.
C19_EachFormItsMeaning ==
    \A p \in Limited :
        PersistedLimits[p].retry_seconds =
            C19_Meaning(TextOf(PersistedLimits[p]), PersistedLimits[p].last_hit)

----------------------------------------------------------------------------
(* C20 - which limits are auto-retried                                      *)

----------------------------------------------------------------------------
(* C21 - a restart does not forget an active limit                          *)

----------------------------------------------------------------------------
(* C22 - lazy expiry                                                        *)

----------------------------------------------------------------------------
(* C23 - no lost update on the shared store                                 *)

\* What a process that starts now would load from rate_limits.json.
Stored == LoadShared(EmptyMap)

AllIdle == \A w \in Processes : workers[w].pc = "idle"

\* C23: the calls of two processes take effect one after the other: once
\* all calls have returned, the file holds a record for every provider
\* whose last completed call was a record, and none for a provider whose
\* last completed call was a clear. So record(p1) by one process and
\* record(p2) by the other leave both records in the file.
C23_NoLostUpdate ==
    AllIdle =>
        \A p \in TrackedProviders :
            /\ last_done[p] = "record" => p \in DOMAIN Stored
            /\ last_done[p] = "clear" => p \notin DOMAIN Stored

----------------------------------------------------------------------------
(* C24 - the file is rewritten atomically                                   *)

\* C24: no load ever reads a file that is cut short, and no process dies
\* leaving one behind: whenever a process loads, and whenever no call is in
\* progress, rate_limits.json is the complete map of the last save.
C24_AtomicRewrite ==
    /\ \A w \in Processes : ~workers[w].read_partial
    /\ AllIdle => ~torn

----------------------------------------------------------------------------
(* C25 - mutual exclusion on the primary provider                           *)

MidCall(provider_pc) == {t \in Tasks : tasks[t].pc = provider_pc}

\* C25: at most one task is executing a call to the primary provider, and
\* the task that is holds the lock.
C25_PrimaryMutualExclusion ==
    /\ Cardinality(MidCall("claude_execute")) <= 1
    /\ \A t \in MidCall("claude_execute") : lock_holder = Some(t)

\* One task is executing a call to the primary provider while another has
\* reached ClaudeConnector.call and waits for the lock.
C25_Witness ==
    \E t1, t2 \in Tasks :
        /\ t1 # t2
        /\ tasks[t1].pc = "claude_execute"
        /\ tasks[t2].pc = "claude_wait"
        /\ lock_waiters = <<t2>>

----------------------------------------------------------------------------
(* C26 - contenders for the lock, and the secondary provider                *)

\* C26: a task that finds the lock held waits for it or calls the secondary
\* provider, so no job ends up with its canned text alone; and no call to
\* the secondary provider is made under the lock of the primary.
C26_SecondaryNeverGated ==
    /\ \A t \in Tasks : tasks[t].pc # "fallback_only"
    /\ \A t \in MidCall("litellm_call") : lock_holder # Some(t)

----------------------------------------------------------------------------
(* C27 - chunks do not split a fenced code block                            *)

\* The characters of a text that are not white space, in order.
NonSpace(s) == SelectSeq(s, LAMBDA c : ~IsSpace(c))

RECURSIVE Joined(_)
Joined(cs) == IF cs = <<>> THEN <<>> ELSE Head(cs) \o Joined(Tail(cs))

RECURSIVE FencesIn(_)
FencesIn(cs) == IF cs = <<>> THEN 0 ELSE CountFences(Head(cs)) + FencesIn(Tail(cs))

\* C27: when the splitter has returned, every chunk holds an even number
\* of fence markers, the chunks together hold as many markers as the text
\* (none was cut in two), and the chunks in order carry the characters of
\* the text that are not white space; each pass of the loop moves forward.
C27_ChunksKeepBlocks ==
    /\ \A i \in 1..Len(chunk_ends) :
          chunk_ends[i] > (IF i = 1 THEN 0 ELSE chunk_ends[i - 1])
    /\ split_pc = "done" =>
          /\ \A i \in 1..Len(chunks) : CountFences(chunks[i]) % 2 = 0
          /\ FencesIn(chunks) = CountFences(split_text)
          /\ NonSpace(Joined(chunks)) = NonSpace(split_text)

----------------------------------------------------------------------------
(* C28 - no file-writing tool modifies a protected path                     *)

\* C28: a step of write_file or of restore_from_backup leaves every file
\* on a protected path as it was.
C28_ProtectedUnchanged ==
    [][<<tool_pc, tool_inv, tool_result, fs_log>>' # <<tool_pc, tool_inv, tool_result, fs_log>>
         => \A f \in DOMAIN fs : IsProtectedPath(f) => fs'[f] = fs[f]]_vars

----------------------------------------------------------------------------
(* C29 - a queued request is not dropped without a reply                    *)

QueuedIds(rows) == {rows[i] : i \in 1..Len(rows)}

\* C29: a task leaves the pending queue only when a reply for it has been
\* sent to its chat, and the tasks that stay keep their order.
C29_DeletedOnlyAfterReply ==
    [][/\ \A id \in QueuedIds(pending_tasks) :
             id \notin QueuedIds(pending_tasks') => id \in delivered'
       /\ SelectSeq(pending_tasks', LAMBDA id : id \in QueuedIds(pending_tasks))
             = SelectSeq(pending_tasks, LAMBDA id : id \in QueuedIds(pending_tasks'))]_vars

----------------------------------------------------------------------------
(* C30 - loop detection goes by the tool name, across the turns             *)

\* The requests after the i-th that carry its name, and the first two of
\* them.
LaterSameName(i) ==
    {j \in (i + 1)..Len(req_log) : req_log[j].name = req_log[i].name}

NextTwoSameName(i) ==
    {j \in LaterSameName(i) : Cardinality({k \in LaterSameName(i) : k < j}) < 2}

\* Among three consecutive requests of one name, whatever their arguments
\* and turns, one is not executed.
C30_OneOfThreeNotExecuted ==
    \A i \in 1..(Len(req_log) - 2) :
        (req_log[i + 1].name = req_log[i].name /\ req_log[i + 2].name = req_log[i].name)
            => \E k \in i..(i + 2) : req_log[k].fate # "dispatched"

\* C30 as stated: among any three consecutive tool-call requests of a
\* session that carry the same name at least one is not executed, and after
\* a detection the next two requests of that name are executed.
C30_NextTwoExecuted ==
    /\ C30_OneOfThreeNotExecuted
    /\ \A i \in 1..Len(req_log) :
          req_log[i].fate = "skipped" =>
              \A j \in NextTwoSameName(i) : req_log[j].fate = "dispatched"

\* C30 as amended: among any three consecutive tool-call requests of a
\* session that carry the same name at least one is not executed, whatever
\* their arguments and turns; after a detection loop detection lets the
\* next two requests of that name through, and each is executed unless it
\* is the request over the tool-call budget, which ends the session.
C30_NameKeyedDetection ==
    /\ C30_OneOfThreeNotExecuted
    /\ \A i \in 1..Len(req_log) :
          req_log[i].fate = "skipped" =>
              \A j \in NextTwoSameName(i) :
                  \/ req_log[j].fate = "dispatched"
                  \/ /\ req_log[j].fate = "refused"
                     /\ j = MAX_TOOL_CALLS + 1

\* A request was skipped as the third of its name, after two of that name
\* with other arguments and one of them in the turn before; the next two
\* of that name were executed.
C30_Witness ==
    \E i \in 3..Len(req_log) :
        /\ req_log[i].fate = "skipped"
        /\ req_log[i - 1].name = req_log[i].name
        /\ req_log[i - 2].name = req_log[i].name
        /\ req_log[i - 1].raw_args # req_log[i].raw_args
        /\ req_log[i - 1].turn # req_log[i].turn
        /\ Cardinality(NextTwoSameName(i)) = 2
        /\ \A j \in NextTwoSameName(i) : req_log[j].fate = "dispatched"

----------------------------------------------------------------------------
(* C31 - one record per provider, operations isolated per provider          *)

\* The records of the providers other than p are in the new map what they
\* were in the old.
OthersUnchanged(p, before, after) ==
    /\ DOMAIN after \ {p} = DOMAIN before \ {p}
    /\ \A q \in DOMAIN before \ {p} : after[q] = before[q]

\* C31: a step that records a throttling event for p leaves p with the
\* record of that event alone; a step that clears p leaves p without
\* record, and leaves the map as it was when p had none; both leave the
\* records of every other provider unchanged.
C31_IsolatedPerProvider ==
    [][LET before == LoadLimits(limits_data, limits_file)
           after == LoadLimits(limits_data', limits_file')
       IN  \A p \in TrackedProviders :
              /\ \A error_msg \in LimitTexts(now) :
                    record_rate_limit(p, error_msg) =>
                        /\ p \in DOMAIN after
                        /\ after[p] = LimitRecord(error_msg, now)
                        /\ OthersUnchanged(p, before, after)
              /\ clear_limit(p) =>
                    /\ p \notin DOMAIN after
                    /\ OthersUnchanged(p, before, after)
                    /\ p \notin DOMAIN before => after = before]_vars

\* Two providers have a record, made at different times: the later event
\* left the earlier record as it was.
C31_Witness ==
    LET stored == LoadLimits(limits_data, limits_file)
    IN  /\ DOMAIN stored = TrackedProviders
        /\ stored["claude"].last_hit < stored["litellm"].last_hit
        /\ stored["claude"].error_preview # stored["litellm"].error_preview

----------------------------------------------------------------------------
(* C32 - no tool runs in a session with tool use disabled                   *)

\* C32: when the request says tool_choice "none", no tool implementation is
\* entered in the session, whatever tool calls the responses carry.
C32_NoToolRunsWhenDisabled ==
    ToolChoice = "none" =>
        \A i \in 1..Len(req_log) :
            ~(req_log[i].fate = "dispatched" /\ req_log[i].result.ran)

----------------------------------------------------------------------------
(* C33 - the jobs that hold the lock complete and release it                *)

\* C33: whenever the heartbeat or a cron job holds the lock, it later
\* holds it no more.
C33_LockHoldersComplete ==
    \A t \in {"heartbeat", "cron"} :
        (lock_holder = Some(t)) ~> (lock_holder # Some(t))

----------------------------------------------------------------------------
(* C34 - a one-shot job runs once                                           *)

\* C34: the callback of a one-shot job is invoked at most once, and when
\* _check_jobs has gone on after the invocation the job is in the job store
\* no more.
C34_OneShotRunsOnce ==
    /\ \A id \in JobIds : runs[id] <= 1
    /\ \A id \in JobIds :
          (runs[id] > 0 /\ ~(check_pc = "callback" /\ Head(check_todo).id = id))
              => id \notin JobIdsOf(jobs)

----------------------------------------------------------------------------
(* C35 - the failure texts of the loop are errors to handle_message         *)

\* The texts call() returns when it gives up.
FailureTexts ==
    {TooManyToolCallsText, MaxTurnsText}
        \cup {ErrorConnectingText(e.class) : e \in ProviderErrors}

\* C35: when handle_message has dealt with a response that is one of the
\* failure texts of the loop, the text was shown as an error, nothing was
\* saved as the assistant's reply and no message was counted as answered.
C35_FailureTextsAreErrors ==
    (hm_pc = "returned" /\ outcome.kind = "returned" /\ outcome.text \in FailureTexts)
        => /\ error_shown = Some(outcome.text)
           /\ saved_reply = Nothing
           /\ answered = 0

----------------------------------------------------------------------------
(* C36 - one model for the whole session                                    *)

\* C36: the requests of one session all name the same model and endpoint.
C36_OneModelPerSession == Cardinality(models_used) <= 1

----------------------------------------------------------------------------
(* C37 - the policy of the router                                           *)

InvokedBy(call) == {call.invoked[i] : i \in 1..Len(call.invoked)}

\* C37: a router call that read force_lite as set does not invoke the
\* primary connector; one that read it as clear invokes the secondary only
\* after it found the primary unavailable or the primary's call raised
\* RateLimitError; the name returned is that of the connector whose text
\* is returned; and after any other exception of the primary the call has
\* raised that exception and the secondary was not invoked.
C37_RouterPolicy ==
    \A t \in RouterCallers :
        /\ rc[t].lite = Some(TRUE) => "claude" \notin InvokedBy(rc[t])
        /\ (rc[t].lite = Some(FALSE) /\ "litellm" \in InvokedBy(rc[t]))
              => \/ rc[t].claude_ok = Some(FALSE)
                 \/ rc[t].claude_result = "RateLimitError"
        /\ rc[t].pc = "returned"
              => (rc[t].name = rc[t].producer /\ rc[t].name \in InvokedBy(rc[t]))
        /\ rc[t].claude_result \in {"LLMError", "OSError"}
              => /\ rc[t].pc = "raised"
                 /\ rc[t].exc = rc[t].claude_result
                 /\ "litellm" \notin InvokedBy(rc[t])

\* The primary's call raised LLMError and the router call has raised it,
\* while the mode has been switched to lite since the call began.
C37_Witness ==
    /\ rc["user"].pc = "raised"
    /\ rc["user"].lite = Some(FALSE)
    /\ rc["user"].claude_result = "LLMError"
    /\ rc["user"].invoked = <<"claude">>
    /\ force_lite

----------------------------------------------------------------------------
(* C38 - the round trip of write_file and restore_from_backup               *)

\* The last tool call was a write_file that was accepted on a file that
\* existed.
AcceptedOverwrite ==
    /\ tool_pc = "idle"
    /\ tool_inv.name = "write_file"
    /\ tool_inv.original # Nothing
    /\ tool_result = Some(WroteText(tool_inv.content[1].size, tool_inv.path))

\* C38: a restore_from_backup of the file that follows an accepted
\* write_file on it and succeeds leaves the file with the content it had
\* before that write; a write_file on the file that follows instead takes
\* a backup, and when it is accepted the backup holds the content of the
\* first write.
C38_BackupRoundTrip ==
    [][/\ (/\ AcceptedOverwrite
            /\ tool_inv'.name = "restore_from_backup"
            /\ tool_inv'.p = tool_inv.p
            /\ tool_result' = Some(RestoredText(tool_inv'.path)))
           => fs'[tool_inv.p] = tool_inv.original
       /\ (/\ AcceptedOverwrite
            /\ tool_inv'.name = "write_file"
            /\ tool_inv'.p = tool_inv.p
            /\ tool_pc' # "idle")
           => /\ tool_pc' = "backup"
              /\ tool_inv'.original = Some(tool_inv.content[1].text)
       /\ (/\ tool_pc = "write"
            /\ tool_inv.original # Nothing
            /\ tool_result' = Some(WroteText(tool_inv.content[1].size, tool_inv.path)))
           => fs'[BackupPath(tool_inv.p)] = tool_inv.original]_vars

\* notes.txt, written twice (v1, then v2) and then restored, holds v1.
C38_Witness ==
    /\ tool_pc = "idle"
    /\ tool_inv.name = "restore_from_backup"
    /\ tool_result = Some(RestoredText(<<"notes", ".txt">>))
    /\ tool_inv.original = Some("v2")
    /\ fs[ProjectDir \o <<"notes", ".txt">>] = Some("v1")
    /\ fs[BackupPath(ProjectDir \o <<"notes", ".txt">>)] = Some("v1")

----------------------------------------------------------------------------
(* C39 - the registry is closed                                             *)

\* C39: the names advertised in TOOLS are the keys of TOOL_MAP, and every
\* key is bound to a function that is defined, so that a request for any
\* advertised tool, in whatever state the session is, can be dispatched.
C39_RegistryClosed ==
    /\ TOOLS = TOOL_MAP
    /\ \A name \in TOOL_MAP : name \in ToolFunctions
    /\ pc = "tools" => \A name \in TOOLS : name \in ToolFunctions

====
